---------------------------- MODULE MCSubAgents ----------------------------
(* Every action of the CRM tool with all it needs and with each part of it *)
(* missing, for a contact named, searched for, or neither.                 *)
EXTENDS SubAgents, TLC

Required(a) == UNION executeGhlTask[Taken(a)].needs \ {"contactId"}

MCUpdates == {{}, {<<"email", "email">>}, {<<"email", "text">>}, {<<"tags", "tags">>},
              {<<"balance", "text">>}}

MCRequests == UNION {
  {[action |-> a,
    args |-> (given \cup query) \cup IF contact = NoContact THEN {} ELSE {"contactId"},
    contact |-> contact, updates |-> updates] :
      given \in {Required(a), Required(a) \cup executeGhlTask[Taken(a)].named}
                 \cup {Required(a) \ {x} : x \in Required(a)},
      query \in {{}, {"query"}}, contact \in Contacts \cup {NoContact},
      updates \in IF Updates(executeGhlTask[Taken(a)]) THEN MCUpdates ELSE {{}}} :
  a \in OfferedActions \cup {"merge_contacts"}}

Symmetry == Permutations(Contacts)
=============================================================================
