---------------------------- MODULE ApprovalTrace ----------------------------
(***************************************************************************)
(* tools/approval-trace-check/audit.js: audit, one event of the supplied   *)
(* trace per step.  The auditor keeps a book of what it has seen so far    *)
(* and flags an event by the book alone; what the flags mean is said here  *)
(* of the trace itself (Lawful), without the book.                         *)
(***************************************************************************)
EXTENDS Naturals, Sequences

CONSTANTS
    Ids, Scopes, Payloads,
    None        \* no payload, no current request

ASSUME TraceAssumption == None \notin Ids /\ None \notin Payloads

VARIABLES
    doc,        \* the events of the document
    at,         \* how many of them have been audited
    book        \* what the auditor has noted

auditVars == <<doc, at, book>>

Events ==
    [type : {"propose", "execute"}, request_id : Ids, scope : Scopes,
     payload : Payloads]
    \cup [type : {"approve", "cancel", "expire"}, request_id : Ids,
          scope : Scopes, payload : {None}]

CODES == {"DUPLICATE_ID", "UNKNOWN_REQUEST", "SCOPE_MISMATCH", "NOT_CURRENT",
          "NOT_PENDING", "NOT_APPROVED", "PAYLOAD_CHANGED",
          "REPEATED_EXECUTION", "ALREADY_TERMINAL"}

Unregistered == [scope |-> None, payload |-> None, state |-> "none"]
Requests == [scope : Scopes \cup {None}, payload : Payloads \cup {None},
             state : {"none", "pending", "approved", "superseded",
                      "executed", "cancelled", "expired"}]

\* requests and current; attempts, valid: the executions counted, by their
\* place; issues: every flag with its place.
NewBook ==
    [requests |-> [id \in Ids |-> Unregistered],
     current |-> [scope \in Scopes |-> None],
     attempts |-> {}, valid |-> {}, issues |-> {}]
Books ==
    [requests : [Ids -> Requests], current : [Scopes -> Ids \cup {None}],
     attempts : SUBSET Nat, valid : SUBSET Nat,
     issues : SUBSET (Nat \X CODES)]
-----------------------------------------------------------------------------
Request(e) == book.requests[e.request_id]
Registered(e) == Request(e).state # "none"
Current(e) == book.current[e.scope] = e.request_id
Elsewhere(e) == Request(e).scope # e.scope

\* An attempt counts for its id also when nobody has proposed the id yet.
Attempted(e) ==
    \E n \in book.attempts : doc[n].request_id = e.request_id

Flag(code, condition) == IF condition THEN {code} ELSE {}

ProposeFlags(e) == Flag("DUPLICATE_ID", Registered(e))

ExecuteFlags(e) ==
    Flag("REPEATED_EXECUTION", Attempted(e)) \cup
    (IF Registered(e)
     THEN Flag("SCOPE_MISMATCH", Elsewhere(e))
          \cup Flag("NOT_CURRENT", ~ Current(e))
          \cup Flag("NOT_APPROVED", Request(e).state # "approved")
          \cup Flag("PAYLOAD_CHANGED", Request(e).payload # e.payload)
     ELSE {"UNKNOWN_REQUEST"})

\* A decision about a request is weighed only in the request's own scope.
DecisionFlags(e, code, states) ==
    CASE ~ Registered(e) -> {"UNKNOWN_REQUEST"}
      [] Registered(e) /\ Elsewhere(e) -> {"SCOPE_MISMATCH"}
      [] OTHER -> Flag("NOT_CURRENT", ~ Current(e))
                  \cup Flag(code, Request(e).state \notin states)

ApproveFlags(e) == DecisionFlags(e, "NOT_PENDING", {"pending"})
CloseFlags(e) ==
    DecisionFlags(e, "ALREADY_TERMINAL", {"pending", "approved"})

Noted(flags) == book.issues \cup ({at + 1} \X flags)
InState(e, state) == [book.requests EXCEPT ![e.request_id].state = state]

\* The request that is current in the scope is superseded if it is still live.
Superseded(scope) ==
    LET id == book.current[scope]
    IN  IF id # None /\ book.requests[id].state \in {"pending", "approved"}
        THEN [book.requests EXCEPT ![id].state = "superseded"]
        ELSE book.requests

Propose(e) ==
    /\ e.type = "propose"
    /\ book' = [book EXCEPT
         !.issues = Noted(ProposeFlags(e)),
         !.requests =
             IF Registered(e) THEN @
             ELSE [Superseded(e.scope) EXCEPT ![e.request_id] =
                      [scope |-> e.scope, payload |-> e.payload,
                       state |-> "pending"]],
         !.current[e.scope] = IF Registered(e) THEN @ ELSE e.request_id]

\* Variant: only the counter of attempts remembers an attempt.
ExecuteCounted(e) ==
    /\ e.type = "execute"
    /\ book' = [book EXCEPT
         !.issues = Noted(ExecuteFlags(e)),
         !.attempts = @ \cup {at + 1},
         !.valid = IF ExecuteFlags(e) = {} THEN @ \cup {at + 1} ELSE @]

\* Any attempt uses the request up, whether it was authorized or not.
Execute(e) ==
    /\ e.type = "execute"
    /\ book' = [book EXCEPT
         !.issues = Noted(ExecuteFlags(e)),
         !.attempts = @ \cup {at + 1},
         !.valid = IF ExecuteFlags(e) = {} THEN @ \cup {at + 1} ELSE @,
         !.requests = IF Registered(e) THEN InState(e, "executed") ELSE @]

Approve(e) ==
    /\ e.type = "approve"
    /\ book' = [book EXCEPT
         !.issues = Noted(ApproveFlags(e)),
         !.requests =
             IF ApproveFlags(e) = {} THEN InState(e, "approved") ELSE @]

Close(e) ==
    /\ e.type \in {"cancel", "expire"}
    /\ book' = [book EXCEPT
         !.issues = Noted(CloseFlags(e)),
         !.requests =
             IF CloseFlags(e) = {}
             THEN InState(e, IF e.type = "cancel" THEN "cancelled"
                             ELSE "expired")
             ELSE @]

\* One round of the loop over the events.
AuditEvent ==
    /\ at < Len(doc)
    /\ LET e == doc[at + 1]
       IN  Propose(e) \/ Execute(e) \/ Approve(e) \/ Close(e)
    /\ at' = at + 1
    /\ UNCHANGED doc

\* The status of the report of a whole document.
Status(report) ==
    CASE report.issues # {} -> "violations_observed"
      [] report.issues = {} /\ report.attempts # {} -> "no_violation_observed"
      [] OTHER -> "no_execution_observed"
-----------------------------------------------------------------------------
\* What the policy "single-live-request-per-scope; exact-payload;
\* one-execution-attempt" means of a trace d, event by event.

\* The proposal that registers its request id.
Registers(d, j) ==
    /\ d[j].type = "propose"
    /\ \A k \in 1 .. j - 1 :
           d[k].type = "propose" => d[k].request_id # d[j].request_id

\* From proposal j up to event i no newer proposal took the scope over.
Holds(d, j, i) ==
    \A k \in j + 1 .. i - 1 : Registers(d, k) => d[k].scope # d[j].scope

\* Between proposal j and event i the request met an event of these types in
\* its own scope.
Met(d, j, i, types) ==
    \E k \in j + 1 .. i - 1 :
        /\ d[k].request_id = d[j].request_id /\ d[k].scope = d[j].scope
        /\ d[k].type \in types

\* Between events j and i there is an attempt to execute the request, in
\* whatever scope.
Tried(d, id, j, i) ==
    \E k \in j + 1 .. i - 1 : d[k].request_id = id /\ d[k].type = "execute"

\* Event i is about the request of proposal j, in its scope, while it holds.
About(d, j, i) ==
    /\ Registers(d, j) /\ d[i].request_id = d[j].request_id
    /\ d[i].scope = d[j].scope /\ Holds(d, j, i)

Open(d, j, i, types) ==
    /\ ~ Tried(d, d[j].request_id, j, i)
    /\ ~ Met(d, j, i, {"cancel", "expire"} \cup types)

Lawful(d, i) ==
    CASE d[i].type = "propose" -> Registers(d, i)
      [] d[i].type = "approve" ->
             \E j \in 1 .. i - 1 : About(d, j, i) /\ Open(d, j, i, {"approve"})
      [] d[i].type = "execute" ->
             \E j \in 1 .. i - 1 :
                 /\ About(d, j, i) /\ Open(d, j, i, {})
                 /\ Met(d, j, i, {"approve"})
                 /\ ~ Tried(d, d[i].request_id, 0, i)
                 /\ d[i].payload = d[j].payload
      [] d[i].type \in {"cancel", "expire"} ->
             \E j \in 1 .. i - 1 : About(d, j, i) /\ Open(d, j, i, {})

\* Of the events audited so far exactly the unlawful ones are flagged, and
\* exactly the lawful executions are counted as valid: the book, which keeps
\* one state per request and one request per scope, forgets nothing that
\* matters to a later event.
FlagsAreExact ==
    /\ \A i \in 1 .. at :
           Lawful(doc, i) <=> \A code \in CODES : <<i, code>> \notin book.issues
    /\ book.valid =
           {i \in 1 .. at : doc[i].type = "execute" /\ Lawful(doc, i)}
=============================================================================
