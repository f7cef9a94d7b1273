---------------------------- MODULE MCTracePage ----------------------------
EXTENDS TracePage, TLC

Event(type, id, scope, payload) ==
    [type |-> type, request_id |-> id, scope |-> scope, payload |-> payload]

\* examples.json, "valid", under every naming of its parts.
Valid(id, scope, payload) ==
    <<Event("propose", id, scope, payload), Event("approve", id, scope, None),
      Event("execute", id, scope, payload)>>

TheExamples ==
    {Valid(id, scope, payload) :
         id \in Ids, scope \in Scopes, payload \in Payloads}

\* A file of every kind, without an event.
TheFiles ==
    [events : {<<>>}, fault : {"none", "twice", "bad", "large", "unreadable"}]

Alike ==
    Permutations(Ids) \cup Permutations(Scopes) \cup Permutations(Payloads)
=============================================================================
