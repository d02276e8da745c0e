----------------------------- MODULE MCClients -----------------------------
(***************************************************************************)
(* What clients do with a pool once it is there, for TLC: lay out its      *)
(* buffer, exchange JSON with a Guest, dispatch from scopes.  They share   *)
(* no state that matters to their properties, so a run takes one of them.  *)
(***************************************************************************)
EXTENDS SharedArena, JsonMailbox, ThreadScope

CONSTANT Clients  \* the clients of a run, of "arena", "json" and "scope"

VARIABLE client

vars == <<client, arenaVars, mailboxVars, scopeVars>>

(* A slice, a value, another slice. *)
TwoSlices == <<"slice", "i32", "slice">>

SomeArguments == {<<a, v, b>> : a \in {-1, 0, 1}, v \in {7}, b \in {0, 2, MaxInt}}

SomeLengths == {-1, 0, 5, MaxInt}

(* Data, among them words that look like a header but for its last length. *)
SomePayloads == {<<2>>, <<5, 0, 7, 5, 10>>}

(* Worker scratch that fits, that is too large, and whose product wraps    *)
(* to zero.                                                                *)
SomeDimensions == {<<0, 1>>, <<2, 1>>, <<2, 8>>, <<8, 8>>}

(* "a" and "b" are each other's answers; "c" is answered by a text longer  *)
(* than mailbox_bytes, "e" by one that does not fit; nor does "h" itself.  *)
SomeResponses == [a |-> "b", b |-> "a", c |-> "d", e |-> "h", h |-> "a"]
SomeSizes == [a |-> 3, b |-> 3, c |-> 7, d |-> 7, e |-> 2, h |-> 9,
              diagnostic |-> 5, empty |-> 0]

Init == /\ client \in Clients
        /\ ArenaInit /\ MailboxInit /\ ScopeInit

ArenaClient == client = "arena" /\ ArenaNext
               /\ UNCHANGED <<client, mailboxVars, scopeVars>>
JsonClient  == client = "json" /\ MailboxNext
               /\ UNCHANGED <<client, arenaVars, scopeVars>>
ScopeClient == client = "scope" /\ ScopeNext
               /\ UNCHANGED <<client, arenaVars, mailboxVars>>

Next == ArenaClient \/ JsonClient \/ ScopeClient

Scoped(step) == client = "scope" /\ step /\ UNCHANGED <<client, arenaVars, mailboxVars>>

(* A coroutine that can go on does, and a dispatch ends (Dispatch.tla).    *)
Fairness == /\ \A s \in Scopes : /\ WF_vars(Scoped(Called(s)))
                                 /\ WF_vars(Scoped(Joined(s)))
                                 /\ WF_vars(Scoped(ScopeReturns(s)))
            /\ \A c \in Tasks : WF_vars(Scoped(TaskRuns(c[1], c[2])))
            /\ \A c \in Scopes \X (0 .. MaxTasks) : WF_vars(Scoped(DispatchEnds(c)))

Spec     == Init /\ [][Next]_vars
FairSpec == Spec /\ Fairness
=============================================================================
