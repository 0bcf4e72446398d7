---------------------------- MODULE CredentialVault ----------------------------
(***************************************************************************)
(* What the device expects of its credential store: one record, which a     *)
(* save replaces at once or not at all, whatever cuts it short.             *)
(***************************************************************************)
CONSTANTS Records, NoRecord

VARIABLES
    vault,       \* the record a restart finds
    saving,      \* the record being saved, or NoRecord
    clearing,
    committed,   \* the record the store has vouched for, or NoRecord
    offered      \* records whose save began since the store was last cleared

vars == <<vault, saving, clearing, committed, offered>>

Init ==
    /\ vault = NoRecord /\ saving = NoRecord /\ committed = NoRecord
    /\ clearing = FALSE /\ offered = {}

Busy == clearing \/ saving # NoRecord

BeginSave(r) ==
    /\ ~Busy /\ committed = NoRecord
    /\ saving' = r /\ offered' = offered \cup {r}
    /\ UNCHANGED <<vault, clearing, committed>>

EndSave ==
    /\ saving # NoRecord
    /\ vault' \in {vault, saving} /\ saving' = NoRecord
    /\ UNCHANGED <<clearing, committed, offered>>

Vouch ==
    /\ ~Busy /\ vault # NoRecord
    /\ committed' = vault
    /\ UNCHANGED <<vault, saving, clearing, offered>>

BeginClear ==
    /\ ~Busy
    /\ clearing' = TRUE /\ committed' = NoRecord
    /\ UNCHANGED <<vault, saving, offered>>

\* A clear that is cut short may uncover an older record.
EndClear ==
    /\ clearing /\ clearing' = FALSE
    /\ \/ vault' = NoRecord /\ offered' = {}
       \/ vault' \in offered \cup {NoRecord} /\ UNCHANGED offered
    /\ UNCHANGED <<saving, committed>>

Next ==
    \/ \E r \in Records : BeginSave(r)
    \/ EndSave \/ Vouch \/ BeginClear \/ EndClear

Spec == Init /\ [][Next]_vars
================================================================================
