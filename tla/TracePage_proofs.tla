-------------------------- MODULE TracePage_proofs --------------------------
(***************************************************************************)
(* The audit is exact for traces of any length, over any requests, scopes  *)
(* and payloads, and the page shows no report but of the text in the box.  *)
(*                                                                         *)
(* The auditor forgets: of a request it keeps one state, of a scope one    *)
(* request.  The invariant says what it still knows (Standing): whether a  *)
(* proposal holds its scope, and, as long as it does, whether its request  *)
(* waits for an approval, has one, or is used up.                          *)
(***************************************************************************)
EXTENDS TracePage, TLAPS

Proposed(id, n) ==
    \E k \in 1 .. n : doc[k].type = "propose" /\ doc[k].request_id = id

\* What the book knows of the request of proposal j.
Standing(j) ==
    LET id == doc[j].request_id
        q == book.requests[id]
    IN  /\ q.scope = doc[j].scope /\ q.payload = doc[j].payload
        /\ book.current[doc[j].scope] = id <=> Holds(doc, j, at + 1)
        /\ Holds(doc, j, at + 1) =>
               /\ q.state = "pending" <=> Open(doc, j, at + 1, {"approve"})
               /\ q.state = "approved" <=> /\ Open(doc, j, at + 1, {})
                                           /\ Met(doc, j, at + 1, {"approve"})

RegisterInv ==
    \A id \in Ids :
        /\ book.requests[id].state = "none" <=> ~ Proposed(id, at)
        /\ book.requests[id].state # "none" =>
               \E j \in 1 .. at : Registers(doc, j) /\ doc[j].request_id = id

CurrentInv ==
    \A s \in Scopes :
        book.current[s] # None =>
            /\ book.requests[book.current[s]].scope = s
            /\ book.requests[book.current[s]].state # "none"

CountInv ==
    /\ book.attempts = {i \in 1 .. at : doc[i].type = "execute"}
    /\ \A i \in Nat, code \in CODES :
           <<i, code>> \in book.issues => i \in 1 .. at

AuditTyped == doc \in Seq(Events) /\ at \in 0 .. Len(doc) /\ book \in Books

AuditInv ==
    /\ AuditTyped /\ RegisterInv /\ CurrentInv /\ CountInv /\ FlagsAreExact
    /\ \A j \in 1 .. at : Registers(doc, j) => Standing(j)
-----------------------------------------------------------------------------
\* What one more event can change of the past of a later one.
LEMMA OneEventMore ==
    ASSUME NEW d, NEW j \in Nat, NEW n \in Nat, j < n, NEW T, NEW id
    PROVE  /\ Met(d, j, n + 1, T) <=>
                  \/ Met(d, j, n, T)
                  \/ /\ d[n].request_id = d[j].request_id
                     /\ d[n].scope = d[j].scope /\ d[n].type \in T
           /\ Tried(d, id, j, n + 1) <=>
                  \/ Tried(d, id, j, n)
                  \/ d[n].request_id = id /\ d[n].type = "execute"
           /\ Holds(d, j, n + 1) <=>
                  /\ Holds(d, j, n)
                  /\ Registers(d, n) => d[n].scope # d[j].scope
<1>1. \A k : k \in j + 1 .. (n + 1) - 1 <=> k \in j + 1 .. n - 1 \/ k = n
  OBVIOUS
<1>2. Met(d, j, n + 1, T) <=>
          \/ Met(d, j, n, T)
          \/ /\ d[n].request_id = d[j].request_id
             /\ d[n].scope = d[j].scope /\ d[n].type \in T
  BY <1>1 DEF Met
<1>3. Tried(d, id, j, n + 1) <=>
          \/ Tried(d, id, j, n)
          \/ d[n].request_id = id /\ d[n].type = "execute"
  BY <1>1 DEF Tried
<1>4. Holds(d, j, n + 1) <=>
          /\ Holds(d, j, n)
          /\ Registers(d, n) => d[n].scope # d[j].scope
  BY <1>1 DEF Holds
<1> QED
  BY <1>2, <1>3, <1>4

\* Open in terms of what was met and tried.
LEMMA OpenIs ==
    ASSUME NEW d, NEW j, NEW i
    PROVE  /\ Open(d, j, i, {}) <=>
                  /\ ~ Tried(d, d[j].request_id, j, i)
                  /\ ~ Met(d, j, i, {"cancel", "expire"})
           /\ Open(d, j, i, {"approve"}) <=>
                  Open(d, j, i, {}) /\ ~ Met(d, j, i, {"approve"})
BY DEF Open, Met

\* A proposal at its own place.
LEMMA AtFirst ==
    ASSUME NEW d, NEW n \in Nat
    PROVE  /\ Holds(d, n, n + 1) /\ Open(d, n, n + 1, {"approve"})
           /\ ~ Met(d, n, n + 1, {"approve"})
BY DEF Holds, Open, Met, Tried

\* The flags of an event are codes.
LEMMA FlagsAreCodes ==
    ASSUME NEW e
    PROVE  /\ ProposeFlags(e) \subseteq CODES /\ ExecuteFlags(e) \subseteq CODES
           /\ ApproveFlags(e) \subseteq CODES /\ CloseFlags(e) \subseteq CODES
BY DEF ProposeFlags, ExecuteFlags, ApproveFlags, CloseFlags, DecisionFlags,
       Flag, CODES

\* The event under audit.
LEMMA EventTyped ==
    ASSUME AuditTyped, at < Len(doc)
    PROVE  /\ doc[at + 1] \in Events /\ at \in Nat /\ at + 1 \in DOMAIN doc
           /\ doc[at + 1].request_id \in Ids /\ doc[at + 1].scope \in Scopes
           /\ doc[at + 1].type = "propose" => doc[at + 1].payload \in Payloads
           /\ \A k \in 1 .. at : /\ doc[k] \in Events
                                 /\ doc[k].request_id \in Ids
                                 /\ doc[k].scope \in Scopes
<1>1. \A k \in 1 .. at + 1 : doc[k] \in Events
  BY DEF AuditTyped
<1>2. \A e \in Events : /\ e.request_id \in Ids /\ e.scope \in Scopes
                        /\ e.type = "propose" => e.payload \in Payloads
  BY DEF Events
<1>3. at \in Nat /\ at + 1 \in DOMAIN doc
  BY DEF AuditTyped
<1> QED
  BY <1>1, <1>2, <1>3

\* An event is flagged exactly if it is unlawful.
LEMMA FlagsOfEvent ==
    ASSUME AuditInv, at < Len(doc), NEW e, e = doc[at + 1]
    PROVE  /\ e.type = "propose" =>
                  (ProposeFlags(e) = {} <=> Lawful(doc, at + 1))
           /\ e.type = "execute" =>
                  (ExecuteFlags(e) = {} <=> Lawful(doc, at + 1))
           /\ e.type = "approve" =>
                  (ApproveFlags(e) = {} <=> Lawful(doc, at + 1))
           /\ e.type \in {"cancel", "expire"} =>
                  (CloseFlags(e) = {} <=> Lawful(doc, at + 1))
<1> DEFINE n == at + 1
<1>1. /\ e.request_id \in Ids /\ e.scope \in Scopes /\ at \in Nat
      /\ n \in Nat /\ n - 1 = at
  BY EventTyped DEF AuditInv
<1>2. Registered(e) <=> Proposed(e.request_id, at)
  BY <1>1 DEF AuditInv, RegisterInv, Registered, Request
<1>3. Registered(e) =>
          \E j \in 1 .. at : Registers(doc, j)
                             /\ doc[j].request_id = e.request_id
  BY <1>1 DEF AuditInv, RegisterInv, Registered, Request
<1>4. ASSUME NEW j \in 1 .. at, Registers(doc, j),
             doc[j].request_id = e.request_id
      PROVE  /\ Registered(e)
             /\ Elsewhere(e) <=> doc[j].scope # e.scope
             /\ Request(e).payload = doc[j].payload
             /\ doc[j].scope = e.scope => (Current(e) <=> Holds(doc, j, n))
             /\ Holds(doc, j, n) =>
                    /\ Request(e).state = "pending" <=>
                           Open(doc, j, n, {"approve"})
                    /\ Request(e).state = "approved" <=>
                           Open(doc, j, n, {}) /\ Met(doc, j, n, {"approve"})
  <2>1. Standing(j)
    BY <1>4 DEF AuditInv
  <2>2. Registered(e)
    BY <1>1, <1>2, <1>4 DEF Proposed, Registers
  <2> QED
    BY <1>4, <2>1, <2>2 DEF Standing, Request, Elsewhere, Current
<1>5. ASSUME e.type = "propose"
      PROVE  ProposeFlags(e) = {} <=> Lawful(doc, n)
  <2>1. Registers(doc, n) <=> ~ Proposed(e.request_id, at)
    BY <1>1, <1>5 DEF Registers, Proposed
  <2>2. Lawful(doc, n) <=> Registers(doc, n)
    BY <1>5 DEF Lawful
  <2> QED
    BY <1>2, <2>1, <2>2 DEF ProposeFlags, Flag
<1>6. ASSUME e.type = "execute"
      PROVE  ExecuteFlags(e) = {} <=> Lawful(doc, n)
  <2>1. Attempted(e) <=> Tried(doc, e.request_id, 0, n)
    BY <1>1 DEF AuditInv, CountInv, Attempted, Tried
  <2>2. Lawful(doc, n) <=>
            \E j \in 1 .. at :
                /\ About(doc, j, n) /\ Open(doc, j, n, {})
                /\ Met(doc, j, n, {"approve"})
                /\ ~ Tried(doc, e.request_id, 0, n)
                /\ e.payload = doc[j].payload
    BY <1>1, <1>6 DEF Lawful
  <2>3. ExecuteFlags(e) = {} <=>
            /\ ~ Attempted(e) /\ Registered(e) /\ ~ Elsewhere(e)
            /\ Current(e) /\ Request(e).state = "approved"
            /\ Request(e).payload = e.payload
    BY DEF ExecuteFlags, Flag
  <2> QED
    BY <1>3, <1>4, <2>1, <2>2, <2>3 DEF About
<1>7. ASSUME e.type = "approve"
      PROVE  ApproveFlags(e) = {} <=> Lawful(doc, n)
  <2>1. Lawful(doc, n) <=>
            \E j \in 1 .. at : About(doc, j, n) /\ Open(doc, j, n, {"approve"})
    BY <1>1, <1>7 DEF Lawful
  <2>2. ApproveFlags(e) = {} <=>
            /\ Registered(e) /\ ~ Elsewhere(e)
            /\ Current(e) /\ Request(e).state = "pending"
    BY DEF ApproveFlags, DecisionFlags, Flag
  <2> QED
    BY <1>3, <1>4, <2>1, <2>2 DEF About
<1>8. ASSUME e.type \in {"cancel", "expire"}
      PROVE  CloseFlags(e) = {} <=> Lawful(doc, n)
  <2>1. Lawful(doc, n) <=>
            \E j \in 1 .. at : About(doc, j, n) /\ Open(doc, j, n, {})
    BY <1>1, <1>8 DEF Lawful
  <2>2. CloseFlags(e) = {} <=>
            /\ Registered(e) /\ ~ Elsewhere(e)
            /\ Current(e) /\ Request(e).state \in {"pending", "approved"}
    BY DEF CloseFlags, DecisionFlags, Flag
  <2> QED
    BY <1>3, <1>4, <2>1, <2>2, OpenIs DEF About
<1> QED
  BY <1>5, <1>6, <1>7, <1>8
-----------------------------------------------------------------------------
\* What the event under audit changes for the request of an earlier proposal.
LEMMA EventPassed ==
    ASSUME AuditTyped, at < Len(doc), NEW j \in 1 .. at, NEW e, e = doc[at + 1]
    PROVE  /\ Holds(doc, j, at + 2) <=>
                  /\ Holds(doc, j, at + 1)
                  /\ Registers(doc, at + 1) => e.scope # doc[j].scope
           /\ Met(doc, j, at + 2, {"approve"}) <=>
                  \/ Met(doc, j, at + 1, {"approve"})
                  \/ /\ e.request_id = doc[j].request_id
                     /\ e.scope = doc[j].scope /\ e.type = "approve"
           /\ Open(doc, j, at + 2, {}) <=>
                  /\ Open(doc, j, at + 1, {})
                  /\ ~ (e.request_id = doc[j].request_id /\ e.type = "execute")
                  /\ ~ /\ e.request_id = doc[j].request_id
                       /\ e.scope = doc[j].scope
                       /\ e.type \in {"cancel", "expire"}
<1> DEFINE n == at + 1
<1>1. j \in Nat /\ n \in Nat /\ j < n /\ n + 1 = at + 2
  BY EventTyped
<1>2. ASSUME NEW T
      PROVE  Met(doc, j, n + 1, T) <=>
                 \/ Met(doc, j, n, T)
                 \/ /\ doc[n].request_id = doc[j].request_id
                    /\ doc[n].scope = doc[j].scope /\ doc[n].type \in T
  BY <1>1, OneEventMore
<1>3. ASSUME NEW id
      PROVE  Tried(doc, id, j, n + 1) <=>
                 \/ Tried(doc, id, j, n)
                 \/ doc[n].request_id = id /\ doc[n].type = "execute"
  BY <1>1, OneEventMore
<1>4. Holds(doc, j, n + 1) <=>
          /\ Holds(doc, j, n)
          /\ Registers(doc, n) => doc[n].scope # doc[j].scope
  BY <1>1, OneEventMore
<1>5. Met(doc, j, n + 1, {"approve"}) <=>
          \/ Met(doc, j, n, {"approve"})
          \/ /\ doc[n].request_id = doc[j].request_id
             /\ doc[n].scope = doc[j].scope /\ doc[n].type = "approve"
  BY <1>2
<1>6. Open(doc, j, n + 1, {}) <=>
          /\ Open(doc, j, n, {})
          /\ ~ (doc[n].request_id = doc[j].request_id /\ doc[n].type = "execute")
          /\ ~ /\ doc[n].request_id = doc[j].request_id
               /\ doc[n].scope = doc[j].scope
               /\ doc[n].type \in {"cancel", "expire"}
  BY <1>2, <1>3, OpenIs
<1> QED
  BY <1>1, <1>4, <1>5, <1>6

\* The standing of an old proposal's request in terms of the record the book
\* will keep of it.
LEMMA StandingAfter ==
    ASSUME AuditTyped, AuditEvent, NEW j \in 1 .. at,
           NEW id, id = doc[j].request_id,
           book'.requests[id].scope = doc[j].scope,
           book'.requests[id].payload = doc[j].payload,
           book'.current[doc[j].scope] = id <=> Holds(doc, j, at + 2),
           Holds(doc, j, at + 2) =>
               /\ book'.requests[id].state = "pending" <=>
                      Open(doc, j, at + 2, {})
                      /\ ~ Met(doc, j, at + 2, {"approve"})
               /\ book'.requests[id].state = "approved" <=>
                      Open(doc, j, at + 2, {})
                      /\ Met(doc, j, at + 2, {"approve"})
    PROVE  Standing(j)'
<1>1. doc' = doc /\ at' + 1 = at + 2
  BY DEF AuditEvent, AuditTyped
<1> QED
  BY <1>1, OpenIs DEF Standing

\* The events audited so far keep what is said of them when one more is.
LEMMA FlagsStay ==
    ASSUME AuditInv, AuditEvent, NEW flags,
           flags \subseteq CODES,
           flags = {} <=> Lawful(doc, at + 1),
           book'.issues = Noted(flags),
           book'.attempts = IF doc[at + 1].type = "execute"
                            THEN book.attempts \cup {at + 1} ELSE book.attempts,
           book'.valid = IF doc[at + 1].type = "execute" /\ flags = {}
                         THEN book.valid \cup {at + 1} ELSE book.valid
    PROVE  CountInv' /\ FlagsAreExact'
<1>1. doc' = doc /\ at' = at + 1 /\ at \in Nat
  BY DEF AuditEvent, AuditInv, AuditTyped
<1>2. \A i : i \in 1 .. at' <=> i \in 1 .. at \/ i = at + 1
  BY <1>1
<1>3. CountInv'
  <2>1. book'.attempts = {i \in 1 .. at' : doc[i].type = "execute"}
    BY <1>2 DEF AuditInv, CountInv
  <2>2. \A i \in Nat, code \in CODES :
            <<i, code>> \in book'.issues => i \in 1 .. at'
    BY <1>2 DEF AuditInv, CountInv, Noted
  <2> QED
    BY <1>1, <2>1, <2>2 DEF CountInv
<1>4. ASSUME NEW i \in 1 .. at, NEW code \in CODES
      PROVE  <<i, code>> \in book'.issues <=> <<i, code>> \in book.issues
  BY <1>1 DEF Noted
<1>5. ASSUME NEW code \in CODES
      PROVE  <<at + 1, code>> \in book'.issues <=> code \in flags
  <2>1. <<at + 1, code>> \notin book.issues
    BY <1>1 DEF AuditInv, CountInv
  <2> QED
    BY <2>1 DEF Noted
<1>6. \A i \in 1 .. at' :
          Lawful(doc, i) <=> \A code \in CODES : <<i, code>> \notin book'.issues
  <2> TAKE i \in 1 .. at'
  <2>1. CASE i \in 1 .. at
    BY <1>4, <2>1 DEF AuditInv, FlagsAreExact
  <2>2. CASE i = at + 1
    BY <1>5, <2>2
  <2> QED
    BY <1>2, <2>1, <2>2
<1>7. book'.valid = {i \in 1 .. at' : doc[i].type = "execute" /\ Lawful(doc, i)}
  <2>1. book.valid = {i \in 1 .. at : doc[i].type = "execute" /\ Lawful(doc, i)}
    BY DEF AuditInv, FlagsAreExact
  <2> QED
    BY <1>2, <2>1
<1> QED
  BY <1>1, <1>3, <1>6, <1>7 DEF FlagsAreExact

\* An event that registers nothing leaves the proposals, the scopes and every
\* other request alone; what it makes of its own request is left to the caller.
LEMMA StateStep ==
    ASSUME AuditInv, AuditEvent, NEW e, e = doc[at + 1],
           ~ Registers(doc, at + 1), CountInv', FlagsAreExact', book' \in Books,
           book'.current = book.current,
           NEW state, state # "none",
           \/ book'.requests = book.requests
           \/ book'.requests = InState(e, state) /\ Registered(e),
           \A j \in 1 .. at :
               /\ Registers(doc, j) /\ doc[j].request_id = e.request_id
               /\ Holds(doc, j, at + 1)
               => /\ book'.requests[e.request_id].state = "pending" <=>
                         Open(doc, j, at + 2, {})
                         /\ ~ Met(doc, j, at + 2, {"approve"})
                  /\ book'.requests[e.request_id].state = "approved" <=>
                         Open(doc, j, at + 2, {})
                         /\ Met(doc, j, at + 2, {"approve"})
    PROVE  AuditInv'
<1>1. /\ doc' = doc /\ at' = at + 1 /\ at \in Nat /\ at' \in 0 .. Len(doc)
      /\ doc \in Seq(Events) /\ e.request_id \in Ids
  BY EventTyped DEF AuditEvent, AuditInv, AuditTyped
<1>2. AuditTyped'
  BY <1>1 DEF AuditTyped
<1>3. ASSUME NEW id \in Ids
      PROVE  /\ book'.requests[id].scope = book.requests[id].scope
             /\ book'.requests[id].payload = book.requests[id].payload
             /\ book'.requests[id].state = "none"
                    <=> book.requests[id].state = "none"
             /\ id # e.request_id =>
                    book'.requests[id].state = book.requests[id].state
  <2>1. book.requests \in [Ids -> Requests]
    BY DEF AuditInv, AuditTyped, Books
  <2>2. book.requests[id] \in Requests
    BY <2>1
  <2>3. CASE book'.requests = book.requests
    BY <2>3
  <2>4. CASE book'.requests = InState(e, state) /\ Registered(e)
    <3>1. id # e.request_id => book'.requests[id] = book.requests[id]
      BY <2>1, <2>4 DEF InState
    <3>2. id = e.request_id =>
              book'.requests[id] = [book.requests[id] EXCEPT !.state = state]
      BY <2>1, <2>4 DEF InState
    <3>3. id = e.request_id =>
              /\ book'.requests[id].scope = book.requests[id].scope
              /\ book'.requests[id].payload = book.requests[id].payload
              /\ book'.requests[id].state = state
      BY <2>2, <3>2 DEF Requests
    <3> QED
      BY <2>4, <3>1, <3>3 DEF Registered, Request
  <2> QED
    BY <2>3, <2>4
<1>4. RegisterInv'
  <2>1. \A id : Proposed(id, at + 1) <=> Proposed(id, at)
    BY <1>1 DEF Proposed, Registers
  <2>2. ASSUME NEW id \in Ids
        PROVE  /\ book'.requests[id].state = "none" <=> ~ Proposed(id, at + 1)
               /\ book'.requests[id].state # "none" =>
                      \E j \in 1 .. at + 1 :
                          Registers(doc, j) /\ doc[j].request_id = id
    BY <1>1, <1>3, <2>1 DEF AuditInv, RegisterInv
  <2>3. \A id : Proposed(id, at)' <=> Proposed(id, at + 1)
    BY <1>1 DEF Proposed
  <2> QED
    BY <1>1, <2>2, <2>3 DEF RegisterInv
<1>5. CurrentInv'
  <2>1. \A s \in Scopes : book.current[s] \in Ids \cup {None}
    BY DEF AuditInv, AuditTyped, Books
  <2> QED
    BY <1>3, <2>1 DEF AuditInv, CurrentInv
<1>6. ASSUME NEW j \in 1 .. at', Registers(doc, j)
      PROVE  Standing(j)'
  <2>1. j \in 1 .. at
    BY <1>1, <1>6 DEF Registers
  <2> DEFINE id == doc[j].request_id
  <2>2. id \in Ids /\ ~ Registers(doc, at + 1) /\ at < Len(doc)
    BY <2>1, EventTyped DEF AuditInv, AuditEvent
  <2>3. Standing(j)
    BY <1>6, <2>1 DEF AuditInv
  <2>4. Holds(doc, j, at + 2) <=> Holds(doc, j, at + 1)
    BY <2>1, <2>2, EventPassed DEF AuditInv
  <2>5. Holds(doc, j, at + 2) =>
            /\ book'.requests[id].state = "pending" <=>
                   Open(doc, j, at + 2, {})
                   /\ ~ Met(doc, j, at + 2, {"approve"})
            /\ book'.requests[id].state = "approved" <=>
                   Open(doc, j, at + 2, {})
                   /\ Met(doc, j, at + 2, {"approve"})
    <3>1. CASE id = e.request_id
      BY <1>6, <2>1, <2>4, <3>1
    <3>2. CASE id # e.request_id
      <4>1. /\ Met(doc, j, at + 2, {"approve"}) <=>
                   Met(doc, j, at + 1, {"approve"})
            /\ Open(doc, j, at + 2, {}) <=> Open(doc, j, at + 1, {})
        BY <2>1, <2>2, <3>2, EventPassed DEF AuditInv
      <4> QED
        BY <1>3, <2>2, <2>3, <2>4, <3>2, <4>1, OpenIs DEF Standing
    <3> QED
      BY <3>1, <3>2
  <2>6. /\ book'.requests[id].scope = doc[j].scope
        /\ book'.requests[id].payload = doc[j].payload
        /\ book'.current[doc[j].scope] = id <=> Holds(doc, j, at + 2)
    BY <1>3, <2>2, <2>3, <2>4 DEF Standing
  <2> QED
    BY <2>1, <2>5, <2>6, StandingAfter DEF AuditInv
<1>7. \A j \in 1 .. at' : Registers(doc', j) => Standing(j)'
  BY <1>1, <1>6
<1> QED
  BY <1>2, <1>4, <1>5, <1>7 DEF AuditInv

\* An id and a state of a book are what the book's type says.
LEMMA BookTyped ==
    ASSUME AuditTyped, at < Len(doc), NEW e, e = doc[at + 1]
    PROVE  /\ book.requests \in [Ids -> Requests]
           /\ book.current \in [Scopes -> Ids \cup {None}]
           /\ book.attempts \subseteq Nat /\ book.valid \subseteq Nat
           /\ \A flags :
                  flags \subseteq CODES => Noted(flags) \subseteq Nat \X CODES
           /\ \A state \in {"pending", "approved", "superseded", "executed",
                             "cancelled", "expired"} :
                  InState(e, state) \in [Ids -> Requests]
<1>1. /\ at + 1 \in Nat /\ e.request_id \in Ids
      /\ book.requests \in [Ids -> Requests]
      /\ book.current \in [Scopes -> Ids \cup {None}]
      /\ book.attempts \subseteq Nat /\ book.valid \subseteq Nat
      /\ book.issues \subseteq Nat \X CODES
  BY EventTyped DEF AuditTyped, Books
<1>2. ASSUME NEW flags, flags \subseteq CODES
      PROVE  Noted(flags) \subseteq Nat \X CODES
  BY <1>1, <1>2 DEF Noted
<1>3. ASSUME NEW state \in {"pending", "approved", "superseded", "executed",
                            "cancelled", "expired"}
      PROVE  InState(e, state) \in [Ids -> Requests]
  <2>1. book.requests[e.request_id] \in Requests
    BY <1>1
  <2>2. [book.requests[e.request_id] EXCEPT !.state = state] \in Requests
    BY <2>1 DEF Requests
  <2>3. InState(e, state) =
            [book.requests EXCEPT ![e.request_id] =
                [book.requests[e.request_id] EXCEPT !.state = state]]
    BY <1>1 DEF InState
  <2> QED
    BY <1>1, <2>2, <2>3
<1> QED
  BY <1>1, <1>2, <1>3

LEMMA ApproveStep ==
    ASSUME AuditInv, AuditEvent, NEW e, e = doc[at + 1], Approve(e)
    PROVE  AuditInv'
<1> DEFINE flags == ApproveFlags(e)
<1>1. /\ e.type = "approve" /\ at < Len(doc) /\ AuditTyped
      /\ e.request_id \in Ids /\ at \in Nat
  BY EventTyped DEF Approve, AuditEvent, AuditInv
<1>2. book \in Books
  BY DEF AuditInv, AuditTyped
<1>3. /\ book'.issues = Noted(flags) /\ book'.attempts = book.attempts
      /\ book'.valid = book.valid /\ book'.current = book.current
      /\ book'.requests = IF flags = {} THEN InState(e, "approved")
                          ELSE book.requests
  BY <1>2 DEF Approve, Books
<1>4. flags \subseteq CODES /\ (flags = {} <=> Lawful(doc, at + 1))
  BY <1>1, FlagsAreCodes, FlagsOfEvent
<1>5. CountInv' /\ FlagsAreExact'
  BY <1>1, <1>3, <1>4, FlagsStay
<1>6. book' \in Books
  <2>1. /\ book' = [requests |-> book'.requests, current |-> book'.current,
                    attempts |-> book'.attempts, valid |-> book'.valid,
                    issues |-> book'.issues]
    BY <1>2 DEF Approve, Books
  <2>2. book'.requests \in [Ids -> Requests]
    BY <1>1, <1>3, BookTyped
  <2>3. /\ book'.current \in [Scopes -> Ids \cup {None}]
        /\ book'.attempts \in SUBSET Nat /\ book'.valid \in SUBSET Nat
        /\ book'.issues \in SUBSET (Nat \X CODES)
    BY <1>1, <1>3, <1>4, BookTyped
  <2> QED
    BY <2>1, <2>2, <2>3 DEF Books
<1>7. flags = {} <=> /\ Registered(e) /\ ~ Elsewhere(e)
                     /\ Current(e) /\ Request(e).state = "pending"
  BY DEF ApproveFlags, DecisionFlags, Flag
<1>8. ASSUME NEW j \in 1 .. at, Registers(doc, j),
             doc[j].request_id = e.request_id, Holds(doc, j, at + 1)
      PROVE  /\ book'.requests[e.request_id].state = "pending" <=>
                    Open(doc, j, at + 2, {})
                    /\ ~ Met(doc, j, at + 2, {"approve"})
             /\ book'.requests[e.request_id].state = "approved" <=>
                    Open(doc, j, at + 2, {})
                    /\ Met(doc, j, at + 2, {"approve"})
  <2>1. /\ Met(doc, j, at + 2, {"approve"}) <=>
               Met(doc, j, at + 1, {"approve"}) \/ e.scope = doc[j].scope
        /\ Open(doc, j, at + 2, {}) <=> Open(doc, j, at + 1, {})
    BY <1>1, <1>8, EventPassed
  <2>2. Standing(j)
    BY <1>8 DEF AuditInv
  <2>3. /\ Request(e).state = "pending" <=> Open(doc, j, at + 1, {})
               /\ ~ Met(doc, j, at + 1, {"approve"})
        /\ Request(e).state = "approved" <=> Open(doc, j, at + 1, {})
               /\ Met(doc, j, at + 1, {"approve"})
    BY <1>8, <2>2, OpenIs DEF Standing, Request
  <2>4. /\ Request(e).scope = doc[j].scope
        /\ e.scope = doc[j].scope => Current(e)
    BY <1>8, <2>2 DEF Standing, Request, Current
  <2>5. Proposed(e.request_id, at)
    BY <1>8 DEF Proposed, Registers
  <2>6. Registered(e)
    BY <1>1, <2>5 DEF AuditInv, RegisterInv, Registered, Request
  <2>7. flags = {} => book'.requests[e.request_id].state = "approved"
    <3>1. book.requests \in [Ids -> Requests]
      BY <1>1, BookTyped
    <3>2. book.requests[e.request_id] \in Requests
      BY <1>1, <3>1
    <3> QED
      BY <1>1, <1>3, <3>1, <3>2 DEF InState, Requests
  <2>8. flags # {} => book'.requests[e.request_id].state = Request(e).state
    BY <1>3 DEF Request
  <2> QED
    BY <1>7, <2>1, <2>3, <2>4, <2>6, <2>7, <2>8 DEF Elsewhere
<1>9. \/ book'.requests = book.requests
      \/ book'.requests = InState(e, "approved") /\ Registered(e)
  BY <1>3, <1>7
<1>10. ~ Registers(doc, at + 1)
  BY <1>1 DEF Registers
<1> QED
  BY <1>1, <1>3, <1>5, <1>6, <1>8, <1>9, <1>10, StateStep

LEMMA CloseStep ==
    ASSUME AuditInv, AuditEvent, NEW e, e = doc[at + 1], Close(e)
    PROVE  AuditInv'
<1> DEFINE flags == CloseFlags(e)
           closed == IF e.type = "cancel" THEN "cancelled" ELSE "expired"
<1>1. /\ e.type \in {"cancel", "expire"} /\ at < Len(doc) /\ AuditTyped
      /\ e.request_id \in Ids /\ at \in Nat
      /\ closed \in {"cancelled", "expired"}
  BY EventTyped DEF Close, AuditEvent, AuditInv
<1>2. book \in Books
  BY DEF AuditInv, AuditTyped
<1>3. /\ book'.issues = Noted(flags) /\ book'.attempts = book.attempts
      /\ book'.valid = book.valid /\ book'.current = book.current
      /\ book'.requests = IF flags = {} THEN InState(e, closed)
                          ELSE book.requests
  BY <1>2 DEF Close, Books
<1>4. flags \subseteq CODES /\ (flags = {} <=> Lawful(doc, at + 1))
  BY <1>1, FlagsAreCodes, FlagsOfEvent
<1>5. CountInv' /\ FlagsAreExact'
  BY <1>1, <1>3, <1>4, FlagsStay
<1>6. book' \in Books
  <2>1. /\ book' = [requests |-> book'.requests, current |-> book'.current,
                    attempts |-> book'.attempts, valid |-> book'.valid,
                    issues |-> book'.issues]
    BY <1>2 DEF Close, Books
  <2>2. book'.requests \in [Ids -> Requests]
    BY <1>1, <1>3, BookTyped
  <2>3. /\ book'.current \in [Scopes -> Ids \cup {None}]
        /\ book'.attempts \in SUBSET Nat /\ book'.valid \in SUBSET Nat
        /\ book'.issues \in SUBSET (Nat \X CODES)
    BY <1>1, <1>3, <1>4, BookTyped
  <2> QED
    BY <2>1, <2>2, <2>3 DEF Books
<1>7. flags = {} <=> /\ Registered(e) /\ ~ Elsewhere(e) /\ Current(e)
                     /\ Request(e).state \in {"pending", "approved"}
  BY DEF CloseFlags, DecisionFlags, Flag
<1>8. ASSUME NEW j \in 1 .. at, Registers(doc, j),
             doc[j].request_id = e.request_id, Holds(doc, j, at + 1)
      PROVE  /\ book'.requests[e.request_id].state = "pending" <=>
                    Open(doc, j, at + 2, {})
                    /\ ~ Met(doc, j, at + 2, {"approve"})
             /\ book'.requests[e.request_id].state = "approved" <=>
                    Open(doc, j, at + 2, {})
                    /\ Met(doc, j, at + 2, {"approve"})
  <2>1. /\ Met(doc, j, at + 2, {"approve"}) <=>
               Met(doc, j, at + 1, {"approve"})
        /\ Open(doc, j, at + 2, {}) <=>
               Open(doc, j, at + 1, {}) /\ e.scope # doc[j].scope
    BY <1>1, <1>8, EventPassed
  <2>2. Standing(j)
    BY <1>8 DEF AuditInv
  <2>3. /\ Request(e).state = "pending" <=> Open(doc, j, at + 1, {})
               /\ ~ Met(doc, j, at + 1, {"approve"})
        /\ Request(e).state = "approved" <=> Open(doc, j, at + 1, {})
               /\ Met(doc, j, at + 1, {"approve"})
    BY <1>8, <2>2, OpenIs DEF Standing, Request
  <2>4. /\ Request(e).scope = doc[j].scope
        /\ e.scope = doc[j].scope => Current(e)
    BY <1>8, <2>2 DEF Standing, Request, Current
  <2>5. Proposed(e.request_id, at)
    BY <1>8 DEF Proposed, Registers
  <2>6. Registered(e)
    BY <1>1, <2>5 DEF AuditInv, RegisterInv, Registered, Request
  <2>7. flags = {} => book'.requests[e.request_id].state = closed
    <3>1. book.requests \in [Ids -> Requests]
      BY <1>1, BookTyped
    <3>2. book.requests[e.request_id] \in Requests
      BY <1>1, <3>1
    <3> QED
      BY <1>1, <1>3, <3>1, <3>2 DEF InState, Requests
  <2>8. flags # {} => book'.requests[e.request_id].state = Request(e).state
    BY <1>3 DEF Request
  <2>9. closed # "pending" /\ closed # "approved"
    OBVIOUS
  <2> HIDE DEF flags, closed
  <2> QED
    BY <1>7, <2>1, <2>3, <2>4, <2>6, <2>7, <2>8, <2>9 DEF Elsewhere
<1>9. /\ \/ book'.requests = book.requests
         \/ book'.requests = InState(e, closed) /\ Registered(e)
      /\ closed # "none"
  BY <1>1, <1>3, <1>7
<1>10. ~ Registers(doc, at + 1)
  BY <1>1 DEF Registers
<1> HIDE DEF closed
<1> QED
  BY <1>1, <1>3, <1>5, <1>6, <1>8, <1>9, <1>10, StateStep

LEMMA ExecuteStep ==
    ASSUME AuditInv, AuditEvent, NEW e, e = doc[at + 1], Execute(e)
    PROVE  AuditInv'
<1> DEFINE flags == ExecuteFlags(e)
<1>1. /\ e.type = "execute" /\ at < Len(doc) /\ AuditTyped
      /\ e.request_id \in Ids /\ at \in Nat
  BY EventTyped DEF Execute, AuditEvent, AuditInv
<1>2. book \in Books
  BY DEF AuditInv, AuditTyped
<1>3. /\ book'.issues = Noted(flags)
      /\ book'.attempts = book.attempts \cup {at + 1}
      /\ book'.valid = IF flags = {} THEN book.valid \cup {at + 1}
                       ELSE book.valid
      /\ book'.current = book.current
      /\ book'.requests = IF Registered(e) THEN InState(e, "executed")
                          ELSE book.requests
  BY <1>2 DEF Execute, Books
<1>4. flags \subseteq CODES /\ (flags = {} <=> Lawful(doc, at + 1))
  BY <1>1, FlagsAreCodes, FlagsOfEvent
<1>5. CountInv' /\ FlagsAreExact'
  BY <1>1, <1>3, <1>4, FlagsStay
<1>6. book' \in Books
  <2>1. /\ book' = [requests |-> book'.requests, current |-> book'.current,
                    attempts |-> book'.attempts, valid |-> book'.valid,
                    issues |-> book'.issues]
    BY <1>2 DEF Execute, Books
  <2>2. book'.requests \in [Ids -> Requests]
    BY <1>1, <1>3, BookTyped
  <2>3. /\ book'.current \in [Scopes -> Ids \cup {None}]
        /\ book'.attempts \in SUBSET Nat /\ book'.valid \in SUBSET Nat
        /\ book'.issues \in SUBSET (Nat \X CODES)
    BY <1>1, <1>3, <1>4, BookTyped
  <2> QED
    BY <2>1, <2>2, <2>3 DEF Books
<1>7. ASSUME NEW j \in 1 .. at, Registers(doc, j),
             doc[j].request_id = e.request_id, Holds(doc, j, at + 1)
      PROVE  /\ book'.requests[e.request_id].state = "pending" <=>
                    Open(doc, j, at + 2, {})
                    /\ ~ Met(doc, j, at + 2, {"approve"})
             /\ book'.requests[e.request_id].state = "approved" <=>
                    Open(doc, j, at + 2, {})
                    /\ Met(doc, j, at + 2, {"approve"})
  <2>1. ~ Open(doc, j, at + 2, {})
    BY <1>1, <1>7, EventPassed
  <2>2. Proposed(e.request_id, at)
    BY <1>7 DEF Proposed, Registers
  <2>3. Registered(e)
    BY <1>1, <2>2 DEF AuditInv, RegisterInv, Registered, Request
  <2>4. book'.requests[e.request_id].state = "executed"
    <3>1. book.requests \in [Ids -> Requests]
      BY <1>1, BookTyped
    <3>2. book.requests[e.request_id] \in Requests
      BY <1>1, <3>1
    <3> QED
      BY <1>1, <1>3, <2>3, <3>1, <3>2 DEF InState, Requests
  <2> QED
    BY <2>1, <2>4
<1>8. \/ book'.requests = book.requests
      \/ book'.requests = InState(e, "executed") /\ Registered(e)
  BY <1>3
<1>9. ~ Registers(doc, at + 1)
  BY <1>1 DEF Registers
<1> QED
  BY <1>1, <1>3, <1>5, <1>6, <1>7, <1>8, <1>9, StateStep

LEMMA ProposeStep ==
    ASSUME AuditInv, AuditEvent, NEW e, e = doc[at + 1], Propose(e)
    PROVE  AuditInv'
<1> DEFINE flags == ProposeFlags(e)
           pending == [scope |-> e.scope, payload |-> e.payload,
                       state |-> "pending"]
<1>1. /\ e.type = "propose" /\ at < Len(doc) /\ AuditTyped
      /\ e.request_id \in Ids /\ e.scope \in Scopes /\ at \in Nat
      /\ e.payload \in Payloads
      /\ doc' = doc /\ at' = at + 1 /\ at' \in 0 .. Len(doc)
      /\ doc \in Seq(Events)
  BY EventTyped DEF Propose, AuditEvent, AuditInv, AuditTyped
<1>2. book \in Books
  BY DEF AuditInv, AuditTyped
<1>3. /\ book'.issues = Noted(flags) /\ book'.attempts = book.attempts
      /\ book'.valid = book.valid
      /\ book'.requests =
             IF Registered(e) THEN book.requests
             ELSE [Superseded(e.scope) EXCEPT ![e.request_id] = pending]
      /\ book'.current =
             [book.current EXCEPT ![e.scope] =
                 IF Registered(e) THEN book.current[e.scope] ELSE e.request_id]
  BY <1>1, <1>2 DEF Propose, Books
<1>4. flags \subseteq CODES /\ (flags = {} <=> Lawful(doc, at + 1))
  BY <1>1, FlagsAreCodes, FlagsOfEvent
<1>5. CountInv' /\ FlagsAreExact'
  BY <1>1, <1>3, <1>4, FlagsStay
<1>6. /\ book.requests \in [Ids -> Requests]
      /\ book.current \in [Scopes -> Ids \cup {None}]
  BY <1>1, BookTyped
<1>7. /\ pending \in Requests /\ pending.scope = e.scope
      /\ pending.payload = e.payload /\ pending.state = "pending"
  BY <1>1 DEF Requests
<1>8. /\ Superseded(e.scope) \in [Ids -> Requests]
      /\ \A id \in Ids :
             LET q == Superseded(e.scope)[id]
                 old == book.requests[id]
             IN  /\ q.scope = old.scope /\ q.payload = old.payload
                 /\ q.state = "none" <=> old.state = "none"
                 /\ old.scope # e.scope => q.state = old.state
  <2> DEFINE id0 == book.current[e.scope]
             live == /\ id0 # None
                     /\ book.requests[id0].state \in {"pending", "approved"}
  <2>1. CASE ~ live
    <3>1. Superseded(e.scope) = book.requests
      BY <2>1 DEF Superseded
    <3> QED
      BY <1>6, <3>1
  <2>2. CASE live
    <3>1. id0 \in Ids /\ book.requests[id0] \in Requests
      BY <1>1, <1>6, <2>2
    <3>2. Superseded(e.scope) =
              [book.requests EXCEPT ![id0] =
                  [book.requests[id0] EXCEPT !.state = "superseded"]]
      BY <1>6, <2>2, <3>1 DEF Superseded
    <3>3. /\ [book.requests[id0] EXCEPT !.state = "superseded"] \in Requests
          /\ [book.requests[id0] EXCEPT !.state = "superseded"].scope
                 = book.requests[id0].scope
          /\ [book.requests[id0] EXCEPT !.state = "superseded"].payload
                 = book.requests[id0].payload
          /\ [book.requests[id0] EXCEPT !.state = "superseded"].state
                 = "superseded"
      BY <3>1 DEF Requests
    <3>4. book.requests[id0].scope = e.scope
      BY <1>1, <2>2 DEF AuditInv, CurrentInv
    <3>5. Superseded(e.scope) \in [Ids -> Requests]
      BY <1>6, <3>1, <3>2, <3>3
    <3>6. ASSUME NEW id \in Ids
          PROVE  LET q == Superseded(e.scope)[id]
                     old == book.requests[id]
                 IN  /\ q.scope = old.scope /\ q.payload = old.payload
                     /\ q.state = "none" <=> old.state = "none"
                     /\ old.scope # e.scope => q.state = old.state
      <4>1. CASE id = id0
        BY <1>6, <2>2, <3>1, <3>2, <3>3, <3>4, <4>1
      <4>2. CASE id # id0
        BY <1>6, <3>2, <4>2
      <4> QED
        BY <4>1, <4>2
    <3> QED
      BY <3>5, <3>6
  <2> QED
    BY <2>1, <2>2
<1> HIDE DEF pending
<1>9. book' \in Books
  <2>1. book' = [requests |-> book'.requests, current |-> book'.current,
                 attempts |-> book'.attempts, valid |-> book'.valid,
                 issues |-> book'.issues]
    BY <1>2 DEF Propose, Books
  <2>2. book'.requests \in [Ids -> Requests]
    BY <1>1, <1>3, <1>6, <1>7, <1>8
  <2>3. book'.current \in [Scopes -> Ids \cup {None}]
    BY <1>1, <1>3, <1>6
  <2>4. /\ book'.attempts \in SUBSET Nat /\ book'.valid \in SUBSET Nat
        /\ book'.issues \in SUBSET (Nat \X CODES)
    BY <1>1, <1>3, <1>4, BookTyped
  <2> QED
    BY <2>1, <2>2, <2>3, <2>4 DEF Books
<1>10. Registered(e) <=> Proposed(e.request_id, at)
  BY <1>1 DEF AuditInv, RegisterInv, Registered, Request
<1>11. Registers(doc, at + 1) <=> ~ Registered(e)
  BY <1>1, <1>10 DEF Registers, Proposed
<1>12. CASE Registered(e)
  <2>1. book'.requests = book.requests /\ book'.current = book.current
    BY <1>3, <1>6, <1>12
  <2>2. ASSUME NEW j \in 1 .. at, Registers(doc, j),
               doc[j].request_id = e.request_id, Holds(doc, j, at + 1)
        PROVE  /\ book'.requests[e.request_id].state = "pending" <=>
                      Open(doc, j, at + 2, {})
                      /\ ~ Met(doc, j, at + 2, {"approve"})
               /\ book'.requests[e.request_id].state = "approved" <=>
                      Open(doc, j, at + 2, {})
                      /\ Met(doc, j, at + 2, {"approve"})
    <3>1. /\ Met(doc, j, at + 2, {"approve"}) <=>
                 Met(doc, j, at + 1, {"approve"})
          /\ Open(doc, j, at + 2, {}) <=> Open(doc, j, at + 1, {})
      BY <1>1, <2>2, EventPassed
    <3>2. Standing(j)
      BY <2>2 DEF AuditInv
    <3> QED
      BY <2>1, <2>2, <3>1, <3>2, OpenIs DEF Standing
  <2>3. "executed" # "none"
    OBVIOUS
  <2> QED
    BY <1>5, <1>9, <1>11, <1>12, <2>1, <2>2, <2>3, StateStep
<1>13. CASE ~ Registered(e)
  <2>1. /\ book'.requests \in [Ids -> Requests]
        /\ book'.requests[e.request_id] = pending
        /\ \A id \in Ids \ {e.request_id} :
               book'.requests[id] = Superseded(e.scope)[id]
    BY <1>1, <1>3, <1>7, <1>8, <1>13
  <2>2. /\ book'.current[e.scope] = e.request_id
        /\ \A s \in Scopes \ {e.scope} : book'.current[s] = book.current[s]
    BY <1>1, <1>3, <1>6, <1>13
  <2>3. AuditTyped'
    BY <1>1, <1>9 DEF AuditTyped
  <2>4. RegisterInv'
    <3>1. \A id : Proposed(id, at + 1) <=>
                      Proposed(id, at) \/ id = e.request_id
      BY <1>1 DEF Proposed
    <3>2. ASSUME NEW id \in Ids
          PROVE  /\ book'.requests[id].state = "none" <=> ~ Proposed(id, at + 1)
                 /\ book'.requests[id].state # "none" =>
                        \E j \in 1 .. at + 1 :
                            Registers(doc, j) /\ doc[j].request_id = id
      <4>1. CASE id = e.request_id
        BY <1>1, <1>7, <1>11, <1>13, <2>1, <3>1, <4>1
      <4>2. CASE id # e.request_id
        <5>1. book'.requests[id].state = "none" <=>
                  book.requests[id].state = "none"
          BY <1>8, <2>1, <4>2
        <5>2. \A j \in 1 .. at : j \in 1 .. at + 1
          BY <1>1
        <5> QED
          BY <3>1, <4>2, <5>1, <5>2 DEF AuditInv, RegisterInv
      <4> QED
        BY <4>1, <4>2
    <3>3. \A id : Proposed(id, at)' <=> Proposed(id, at + 1)
      BY <1>1 DEF Proposed
    <3> QED
      BY <1>1, <3>2, <3>3 DEF RegisterInv
  <2>5. CurrentInv'
    <3>1. ASSUME NEW s \in Scopes, book'.current[s] # None
          PROVE  /\ book'.requests[book'.current[s]].scope = s
                 /\ book'.requests[book'.current[s]].state # "none"
      <4>1. CASE s = e.scope
        BY <1>7, <2>1, <2>2, <4>1
      <4>2. CASE s # e.scope
        <5>1. book.current[s] \in Ids /\ book'.current[s] = book.current[s]
          BY <1>6, <2>2, <3>1, <4>2
        <5>2. /\ book.requests[book.current[s]].scope = s
              /\ book.requests[book.current[s]].state # "none"
          BY <3>1, <5>1 DEF AuditInv, CurrentInv
        <5>3. book.current[s] # e.request_id
          BY <1>13, <5>2 DEF Registered, Request
        <5> QED
          BY <1>8, <2>1, <5>1, <5>2, <5>3
      <4> QED
        BY <4>1, <4>2
    <3> QED
      BY <3>1 DEF CurrentInv
  <2>6. ASSUME NEW j \in 1 .. at', Registers(doc, j)
        PROVE  Standing(j)'
    <3>1. CASE j \in 1 .. at
      <4> DEFINE id == doc[j].request_id
      <4>1. id \in Ids /\ doc[j].scope \in Scopes
        BY <1>1, <3>1, EventTyped
      <4>2. id # e.request_id
        BY <1>10, <1>13, <2>6, <3>1 DEF Registers, Proposed
      <4>3. Standing(j)
        BY <2>6, <3>1 DEF AuditInv
      <4>4. /\ Holds(doc, j, at + 2) <=>
                   Holds(doc, j, at + 1) /\ doc[j].scope # e.scope
            /\ Met(doc, j, at + 2, {"approve"}) <=>
                   Met(doc, j, at + 1, {"approve"})
            /\ Open(doc, j, at + 2, {}) <=> Open(doc, j, at + 1, {})
        BY <1>1, <1>11, <1>13, <3>1, <4>2, EventPassed
      <4>5. /\ book'.requests[id].scope = doc[j].scope
            /\ book'.requests[id].payload = doc[j].payload
            /\ doc[j].scope # e.scope =>
                   book'.requests[id].state = book.requests[id].state
        BY <1>8, <2>1, <4>1, <4>2, <4>3 DEF Standing
      <4>6. book'.current[doc[j].scope] = id <=> Holds(doc, j, at + 2)
        <5>1. CASE doc[j].scope = e.scope
          BY <2>2, <4>2, <4>4, <5>1
        <5>2. CASE doc[j].scope # e.scope
          BY <2>2, <4>1, <4>3, <4>4, <5>2 DEF Standing
        <5> QED
          BY <5>1, <5>2
      <4>7. Holds(doc, j, at + 2) =>
                /\ book'.requests[id].state = "pending" <=>
                       Open(doc, j, at + 2, {})
                       /\ ~ Met(doc, j, at + 2, {"approve"})
                /\ book'.requests[id].state = "approved" <=>
                       Open(doc, j, at + 2, {})
                       /\ Met(doc, j, at + 2, {"approve"})
        BY <4>3, <4>4, <4>5, OpenIs DEF Standing
      <4> QED
        BY <1>1, <3>1, <4>5, <4>6, <4>7, StandingAfter
    <3>2. CASE j = at + 1
      <4>1. /\ Holds(doc, at + 1, at + 2)
            /\ Open(doc, at + 1, at + 2, {"approve"})
            /\ ~ Met(doc, at + 1, at + 2, {"approve"})
        <5>1. at + 1 \in Nat /\ (at + 1) + 1 = at + 2
          BY <1>1
        <5> QED
          BY <5>1, AtFirst
      <4>2. at' + 1 = at + 2
        BY <1>1
      <4>3. doc'[j] = e /\ doc[at + 1] = e
        BY <1>1, <3>2
      <4> QED
        BY <1>1, <1>7, <2>1, <2>2, <3>2, <4>1, <4>2, <4>3 DEF Standing
    <3> QED
      BY <1>1, <3>1, <3>2
  <2>7. \A j \in 1 .. at' : Registers(doc', j) => Standing(j)'
    BY <1>1, <2>6
  <2> QED
    BY <1>5, <2>3, <2>4, <2>5, <2>7 DEF AuditInv
<1> QED
  BY <1>12, <1>13

\* The audit of one event keeps all that is said of the audit.
LEMMA AuditStep ==
    ASSUME AuditInv, AuditEvent
    PROVE  AuditInv'
<1> DEFINE e == doc[at + 1]
<1>1. Propose(e) \/ Execute(e) \/ Approve(e) \/ Close(e)
  BY DEF AuditEvent
<1>2. CASE Propose(e)
  BY <1>2, ProposeStep
<1>3. CASE Execute(e)
  BY <1>3, ExecuteStep
<1>4. CASE Approve(e)
  BY <1>4, ApproveStep
<1>5. CASE Close(e)
  BY <1>5, CloseStep
<1> QED
  BY <1>1, <1>2, <1>3, <1>4, <1>5

-----------------------------------------------------------------------------
\* The audit is as good as new between two runs.
Fresh == doc \in Seq(Events) /\ at = 0 /\ book = NewBook

LEMMA FreshAudit == Fresh => AuditInv
<1> SUFFICES ASSUME Fresh PROVE AuditInv
  OBVIOUS
<1>1. /\ book.requests = [id \in Ids |-> Unregistered]
      /\ book.current = [scope \in Scopes |-> None]
      /\ book.attempts = {} /\ book.valid = {} /\ book.issues = {}
      /\ at = 0 /\ doc \in Seq(Events)
  BY DEF Fresh, NewBook
<1>2. AuditTyped
  <2>1. Unregistered \in Requests
    BY DEF Unregistered, Requests
  <2>2. Len(doc) \in Nat
    BY <1>1
  <2> QED
    BY <1>1, <2>1, <2>2 DEF AuditTyped, Books, Fresh, NewBook
<1>3. RegisterInv
  <2>1. \A id \in Ids : book.requests[id].state = "none"
    <3>1. Unregistered.state = "none"
      BY DEF Unregistered
    <3> QED
      BY <1>1, <3>1
  <2>2. ASSUME NEW id PROVE ~ Proposed(id, at)
    <3>1. 1 .. at = {}
      BY <1>1
    <3> QED
      BY <3>1 DEF Proposed
  <2> QED
    BY <2>1, <2>2 DEF RegisterInv
<1>4. CurrentInv /\ CountInv /\ FlagsAreExact
  BY <1>1 DEF CurrentInv, CountInv, FlagsAreExact
<1> QED
  BY <1>1, <1>2, <1>3, <1>4 DEF AuditInv

LEMMA FreshAuditNext == Fresh' => AuditInv'
BY FreshAudit, PTL

LEMMA AuditStays ==
    ASSUME AuditInv, UNCHANGED auditVars
    PROVE  AuditInv'
BY DEF AuditInv, AuditTyped, RegisterInv, CurrentInv, CountInv, FlagsAreExact,
       Standing, Proposed, auditVars

\* What holds of the page: it audits the text in the box or nothing, shows a
\* report only of that text, and a read that still has the page's ticket is
\* what the last input asked for.
PageInv ==
    /\ TypeOK
    /\ ~ busy => doc = <<>> /\ at = 0 /\ book = NewBook
    /\ busy => doc = box.events /\ box.fault = "none" /\ report = None
    /\ box \in wanted
    /\ \A read \in reads :
           /\ read.file.fault # "large"
           /\ read.ticket = inputEpoch =>
                  Text(read.file.events, read.file.fault) \in wanted
    /\ ReportIsOfBox

IInv == AuditInv /\ PageInv

Texts == [events : Seq(Events), fault : {"none", "twice", "bad"}]

LEMMA TextTyped ==
    ASSUME NEW events \in Seq(Events), NEW fault \in {"none", "twice", "bad"}
    PROVE  /\ Text(events, fault) \in Texts
           /\ Text(events, fault).events = events
           /\ Text(events, fault).fault = fault
BY DEF Text, Texts

\* The report of a whole document.
LEMMA ReportIsTrue ==
    ASSUME AuditInv, PageInv, Show
    PROVE  ReportIsOfBox'
<1> DEFINE d == box.events
<1>1. /\ box' = box /\ box.fault = "none" /\ doc = d /\ at = Len(doc)
      /\ report' = [attempts |-> book.attempts, valid |-> book.valid,
                    issues |-> book.issues]
      /\ DOMAIN d = 1 .. at
  BY DEF Show, PageInv, AuditInv, AuditTyped
<1>2. \A i \in DOMAIN d :
          Lawful(d, i) <=> \A code \in CODES : <<i, code>> \notin book.issues
  BY <1>1 DEF AuditInv, FlagsAreExact
<1>3. book.attempts = {i \in DOMAIN d : d[i].type = "execute"}
  BY <1>1 DEF AuditInv, CountInv
<1>4. book.issues = {} <=> \A i \in DOMAIN d : Lawful(d, i)
  <2>1. book.issues \subseteq Nat \X CODES
    BY DEF AuditInv, AuditTyped, Books
  <2>2. \A i \in Nat, code \in CODES :
            <<i, code>> \in book.issues => i \in DOMAIN d
    BY <1>1 DEF AuditInv, CountInv
  <2>3. \A x \in book.issues :
            \E i \in Nat, code \in CODES : x = <<i, code>>
    BY <2>1
  <2> QED
    BY <1>2, <2>2, <2>3
<1>5. report'.issues = book.issues /\ report'.attempts = book.attempts
  BY <1>1
<1>6. /\ Status(report') = "no_violation_observed" <=>
             book.issues = {} /\ book.attempts # {}
      /\ Status(report') = "no_execution_observed" <=>
             book.issues = {} /\ book.attempts = {}
  BY <1>5 DEF Status
<1> QED
  BY <1>1, <1>2, <1>3, <1>4, <1>5, <1>6 DEF ReportIsOfBox

LEMMA PageStarts == Init => IInv
<1> SUFFICES ASSUME Init PROVE IInv
  OBVIOUS
<1>1. PICK example \in Examples : box = Text(example, "none")
  BY DEF Init
<1>2. example \in Seq(Events)
  BY PageAssumption
<1>3. box \in Texts /\ box.fault = "none" /\ box.events \in Seq(Events)
  BY <1>1, <1>2, TextTyped
<1>4. AuditInv
  BY <1>3, FreshAudit DEF Init, Fresh
<1>5. TypeOK
  BY <1>3, <1>4 DEF Init, TypeOK, AuditInv, AuditTyped, Texts
<1> QED
  BY <1>3, <1>4, <1>5 DEF Init, IInv, PageInv, ReportIsOfBox

\* A new run of the audit, over a text that is the box from now on.
LEMMA RunStep ==
    ASSUME IInv, ~ busy, NEW text \in Texts, Run(text), box' = text,
           text \in wanted', reads' \subseteq reads
    PROVE  IInv'
<1>1. /\ inputEpoch \in Nat /\ inputEpoch' = inputEpoch + 1
      /\ report' = None /\ at' = 0 /\ book' = NewBook
      /\ error' \in BOOLEAN /\ busy' = Parsed(text)
      /\ doc' = IF Parsed(text) THEN text.events ELSE <<>>
      /\ text.events \in Seq(Events)
      /\ reads \subseteq [ticket : 1 .. inputEpoch, file : Files]
  BY DEF Run, NextEpoch, IInv, PageInv, TypeOK, Texts
<1>2. doc' \in Seq(Events)
  BY <1>1
<1>3. AuditInv'
  BY <1>1, <1>2, FreshAuditNext DEF Fresh
<1>4. reads' \subseteq [ticket : 1 .. inputEpoch', file : Files]
  BY <1>1
<1>5. TypeOK'
  BY <1>1, <1>3, <1>4 DEF TypeOK, AuditInv, AuditTyped, Texts, Parsed
<1>6. \A read \in reads' :
          read.file.fault # "large" /\ read.ticket # inputEpoch'
  BY <1>1 DEF IInv, PageInv
<1> QED
  BY <1>1, <1>3, <1>5, <1>6 DEF IInv, PageInv, ReportIsOfBox, Parsed

\* An input that leaves the audit alone and takes the report away.
LEMMA InputStep ==
    ASSUME IInv, ~ busy, UNCHANGED <<auditVars, busy>>, NextEpoch,
           report' = None, error' \in BOOLEAN, box' \in Texts,
           box' \in wanted',
           reads' \subseteq [ticket : 1 .. inputEpoch', file : Files],
           \A read \in reads' :
               /\ read.file.fault # "large"
               /\ read.ticket = inputEpoch' =>
                      Text(read.file.events, read.file.fault) \in wanted'
    PROVE  IInv'
<1>1. AuditInv'
  BY AuditStays DEF IInv
<1>2. TypeOK'
  BY <1>1 DEF IInv, PageInv, TypeOK, AuditInv, AuditTyped, Texts, NextEpoch
<1> QED
  BY <1>1, <1>2 DEF IInv, PageInv, ReportIsOfBox, auditVars

\* The box is edited or cleared: no read is wanted any longer.
LEMMA EnterStep ==
    ASSUME IInv, ~ busy, Invalidate, NEW text \in Texts, Enter(text)
    PROVE  IInv'
<1>1. /\ inputEpoch \in Nat /\ inputEpoch' = inputEpoch + 1 /\ NextEpoch
      /\ report' = None /\ error' \in BOOLEAN
      /\ UNCHANGED <<auditVars, busy>>
      /\ box' = text /\ wanted' = {text} /\ reads' = reads
      /\ reads \subseteq [ticket : 1 .. inputEpoch, file : Files]
  BY DEF Invalidate, NextEpoch, Enter, IInv, PageInv, TypeOK
<1>2. \A read \in reads' :
          read.file.fault # "large" /\ read.ticket # inputEpoch'
  BY <1>1 DEF IInv, PageInv
<1>3. reads' \subseteq [ticket : 1 .. inputEpoch', file : Files]
  BY <1>1
<1> QED
  BY <1>1, <1>2, <1>3, InputStep

LEMMA StutterStep ==
    ASSUME IInv, UNCHANGED vars
    PROVE  IInv'
<1>1. UNCHANGED auditVars /\ UNCHANGED pageVars
  BY DEF vars
<1>2. AuditInv'
  BY <1>1, AuditStays DEF IInv
<1> QED
  BY <1>1, <1>2
     DEF IInv, PageInv, TypeOK, ReportIsOfBox, auditVars, pageVars

LEMMA PageStep == IInv /\ [Next]_vars => IInv'
<1> SUFFICES ASSUME IInv, [Next]_vars PROVE IInv'
  OBVIOUS
<1>1. /\ AuditInv /\ PageInv /\ TypeOK
      /\ box \in Texts /\ inputEpoch \in Nat
      /\ box.events \in Seq(Events)
      /\ reads \subseteq [ticket : 1 .. inputEpoch, file : Files]
  BY DEF IInv, PageInv, TypeOK, Texts
<1>2. CASE Audit
  <2>1. AuditInv' /\ doc' = doc /\ box' = box
    BY <1>1, <1>2, AuditStep DEF Audit, AuditEvent, pageVars
  <2> QED
    BY <1>1, <1>2, <2>1
       DEF Audit, pageVars, IInv, PageInv, TypeOK, AuditInv, AuditTyped,
           ReportIsOfBox
<1>3. CASE Show
  <2>1. doc' = <<>> /\ at' = 0 /\ book' = NewBook
    BY <1>3 DEF Show
  <2>2. AuditInv'
    BY <2>1, FreshAuditNext DEF Fresh
  <2>3. report' \in Reports
    BY <1>1, <1>3 DEF Show, Reports, AuditInv, AuditTyped, Books
  <2>4. TypeOK'
    BY <1>1, <1>3, <2>2, <2>3 DEF Show, TypeOK, AuditInv, AuditTyped
  <2>5. ReportIsOfBox'
    BY <1>1, <1>3, ReportIsTrue
  <2> QED
    BY <1>1, <1>3, <2>1, <2>2, <2>4, <2>5 DEF Show, IInv, PageInv
<1>4. CASE Edit
  <2>1. PICK text \in Texts : Enter(text)
    <3>1. CASE \E e \in Events : Enter(Text(Append(box.events, e), "none"))
      <4>1. PICK e \in Events : Enter(Text(Append(box.events, e), "none"))
        BY <3>1
      <4>2. Append(box.events, e) \in Seq(Events)
        BY <1>1
      <4>3. Text(Append(box.events, e), "none") \in Texts
        BY <4>2, TextTyped
      <4> QED
        BY <4>1, <4>3
    <3>2. CASE \E fault \in {"none", "twice", "bad"} \ {box.fault} :
                   Enter(Text(box.events, fault))
      BY <1>1, <3>2, TextTyped
    <3> QED
      BY <1>4, <3>1, <3>2 DEF Edit
  <2> QED
    BY <1>1, <1>4, <2>1, EnterStep DEF Edit
<1>5. CASE Load
  <2>1. PICK example \in Examples :
            Run(Text(example, "none")) /\ Enter(Text(example, "none"))
    BY <1>5 DEF Load
  <2>2. Text(example, "none") \in Texts
    BY PageAssumption, TextTyped
  <2> QED
    BY <1>5, <2>1, <2>2, RunStep DEF Load, Enter
<1>6. CASE Check
  BY <1>1, <1>6, RunStep DEF Check, PageInv
<1>7. CASE Clear
  <2>1. Empty \in Texts
    <3>1. <<>> \in Seq(Events)
      OBVIOUS
    <3> QED
      BY <3>1, TextTyped DEF Empty
  <2> QED
    BY <1>1, <1>7, <2>1, EnterStep DEF Clear
<1>8. CASE ChooseFile
  <2>1. PICK file \in Files :
            /\ error' = (file.fault = "large")
            /\ reads' = IF file.fault = "large" THEN reads
                        ELSE reads \cup {[ticket |-> inputEpoch + 1,
                                          file |-> file]}
            /\ wanted' = {box, Text(file.events, file.fault)}
    BY <1>8 DEF ChooseFile
  <2>2. /\ ~ busy /\ UNCHANGED <<auditVars, busy>> /\ NextEpoch
        /\ inputEpoch' = inputEpoch + 1 /\ box' = box /\ report' = None
    BY <1>8 DEF ChooseFile, Idle, NextEpoch
  <2>3. \A read \in reads :
            read.file.fault # "large" /\ read.ticket # inputEpoch'
    BY <1>1, <2>2 DEF PageInv
  <2>4. reads' \subseteq [ticket : 1 .. inputEpoch', file : Files]
    BY <1>1, <2>1, <2>2
  <2>5. \A read \in reads' :
            /\ read.file.fault # "large"
            /\ read.ticket = inputEpoch' =>
                   Text(read.file.events, read.file.fault) \in wanted'
    BY <2>1, <2>3
  <2> QED
    BY <1>1, <2>1, <2>2, <2>4, <2>5, InputStep
<1>9. CASE Look
  <2>1. UNCHANGED vars
    BY <1>9 DEF Look
  <2> QED
    BY <2>1, StutterStep
<1>10. ASSUME NEW read \in reads, ~ busy, FileRead(read)
       PROVE  IInv'
  <2>1. Text(read.file.events, read.file.fault) \in Texts
    <3>1. read.file.events \in Seq(Events)
      BY <1>1, PageAssumption
    <3>2. read.file.fault \in {"none", "twice", "bad"}
      <4>1. /\ read.file \in Files /\ read.file.fault # "large"
            /\ read.file.fault # "unreadable"
        BY <1>1, <1>10 DEF FileRead, PageInv
      <4> QED
        BY <4>1, PageAssumption
    <3> QED
      BY <3>1, <3>2, TextTyped
  <2>2. Text(read.file.events, read.file.fault) \in wanted'
    BY <1>1, <1>10 DEF FileRead, PageInv
  <2>3. /\ Run(Text(read.file.events, read.file.fault))
        /\ box' = Text(read.file.events, read.file.fault)
        /\ reads' \subseteq reads
    BY <1>10 DEF FileRead, Run
  <2> QED
    BY <1>10, <2>1, <2>2, <2>3, RunStep
<1>11. ASSUME NEW read \in reads, ~ busy, FileFails(read) \/ FileDropped(read)
       PROVE  IInv'
  <2>1. /\ UNCHANGED <<auditVars, box, busy, inputEpoch, wanted>>
        /\ reads' \subseteq reads /\ error' \in BOOLEAN
        /\ report' = None \/ report' = report
    BY <1>1, <1>11 DEF FileFails, FileDropped, TypeOK
  <2>2. AuditInv'
    BY <1>1, <2>1, AuditStays
  <2> QED
    BY <1>1, <1>11, <2>1, <2>2
       DEF IInv, PageInv, TypeOK, AuditInv, AuditTyped, ReportIsOfBox, auditVars
<1>12. CASE UNCHANGED vars
  BY <1>12, StutterStep
<1> QED
  BY <1>2, <1>3, <1>4, <1>5, <1>6, <1>7, <1>8, <1>9, <1>10, <1>11, <1>12
     DEF Next
-----------------------------------------------------------------------------
\* audit: at every point of a trace of any length exactly the events that the
\* policy forbids are flagged, and exactly the executions it allows are valid.
THEOREM AuditIsExact == Spec => []FlagsAreExact
<1>1. IInv => FlagsAreExact
  BY DEF IInv, AuditInv
<1> QED
  BY <1>1, PageStarts, PageStep, PTL DEF Spec

\* render: a report on display is true of the text in the box.
THEOREM ReportsAreTrue == Spec => []ReportIsOfBox
<1>1. IInv => ReportIsOfBox
  BY DEF IInv, PageInv
<1> QED
  BY <1>1, PageStarts, PageStep, PTL DEF Spec

\* The file listener: a read that is no longer wanted changes nothing.
THEOREM LateReadsAreDropped == Spec => []LastInputStays
<1>1. IInv => LastInputStays
  BY DEF IInv, PageInv, LastInputStays
<1> QED
  BY <1>1, PageStarts, PageStep, PTL DEF Spec
=============================================================================
