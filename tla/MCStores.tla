------------------------------- MODULE MCStores -------------------------------
(* Two durable stores that share no state, on small instances: the prompt  *)
(* journal and the shared draft of a session.  A behaviour is one of the   *)
(* store its first state puts in focus.                                    *)
EXTENDS PromptJournal, SharedDrafts, TLC

VARIABLE store

vars == <<journalVars, draftVars, store>>

Init == store \in {"journal", "drafts"} /\ JournalInit /\ DraftsInit

Next ==
    \/ store = "journal" /\ JournalNext /\ UNCHANGED <<draftVars, store>>
    \/ store = "drafts" /\ DraftsNext /\ UNCHANGED <<journalVars, store>>

Spec == Init /\ [][Next]_vars

\* Prompts are alike, and so are devices and texts.
Alike == Permutations(Prompts) \cup Permutations(Devices) \cup Permutations(Texts)
=============================================================================
