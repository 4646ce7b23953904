------------------------- MODULE ConversationStore -------------------------
(***************************************************************************)
(* What a Conversation_Store promises of its conversations, each operation *)
(* taken whole: what InMemory_Conversation_Store (conversation/store.py)   *)
(* does for one caller at a time.  Neither store makes them so: that one   *)
(* takes no lock, and in PostgreSQL, which AgentRun has, an append reads   *)
(* the last position and inserts behind it while other calls do the same.  *)
(*                                                                         *)
(* Only what is stored is told here; an append that fails, or that another *)
(* organisation's conversation swallows, changes nothing.                  *)
(***************************************************************************)
EXTENDS Integers, FiniteSets

CONSTANTS Org, Conversation, Request

VARIABLES
    known,      \* the conversations there are, each an organisation's
    kept        \* what is said in each, by position

vars == <<known, kept>>

Init ==
    /\ known = {}
    /\ kept = [key \in Org \X Conversation |-> {}]

\* The id is nobody's yet.
Create(o, c) ==
    /\ \A p \in Org : <<p, c>> \notin known
    /\ known' = known \cup {<<o, c>>}
    /\ UNCHANGED kept

\* An unknown id becomes a conversation; the message comes after all others.
Append(o, c, role, by) ==
    /\ known' = known \cup {<<o, c>>}
    /\ kept' = [kept EXCEPT ![<<o, c>>] =
                   @ \cup {[conv |-> c, position |-> Cardinality(@), role |-> role, by |-> by]}]

Next ==
    \E o \in Org, c \in Conversation :
        \/ Create(o, c)
        \/ \E role \in {"user", "assistant"}, by \in Request : Append(o, c, role, by)

Spec == Init /\ [][Next]_vars
=============================================================================
