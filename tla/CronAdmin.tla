------------------------------ MODULE CronAdmin ------------------------------
(***************************************************************************)
(* CronScheduler together with the admin's pause switch.  The route reads  *)
(* the row, toggle() flips is_active and next_run_at on the instance, and  *)
(* save() writes the WHOLE instance back: BaseModel.save passes every      *)
(* attribute to update, and the lenient schema keeps the columns no form   *)
(* edits.  The lock and the counters are columns of that row too.          *)
(***************************************************************************)
EXTENDS CronScheduler

CONSTANT MaxToggles   \* bound: switches thrown
ASSUME TogglesAssumption == MaxToggles \in Nat

VARIABLES edit,     \* the row as the pending toggle request read it, or NoEdit
          toggles,  \* switches thrown so far
          undone    \* history: a switch has put back another lock than the row had

NoEdit == [pending |-> FALSE]
adminVars == <<now, fired, row, msgs, exec, sent, asked, faults, claims, results,
               edit, toggles, undone>>

AdminInit == Init /\ edit = NoEdit /\ toggles = 0 /\ undone = FALSE

\* handleCronTask: findForApp, before the await of toggle().
ReadForToggle ==
    /\ toggles < MaxToggles /\ ~edit.pending /\ row.exists
    /\ edit' = [pending |-> TRUE, seen |-> row]
    /\ toggles' = toggles + 1
    /\ UNCHANGED <<vars, undone>>

\* Mutant of Toggled: a resumed task is due at once.
ToggledNow(seen) == [seen EXCEPT !.active = ~@, !.next = IF seen.active THEN Null ELSE now]

\* toggle(): flip the flag; a pause clears next_run_at, a resume computes it.
Toggled(seen) ==
    [seen EXCEPT !.active = ~@, !.next = IF seen.active THEN Null ELSE NextRun(now)]

\* A corrupt expression makes getNextRun or the update's validation throw, and so does
\* resuming one that never matches again: the request errs and writes nothing.  Validation
\* refuses more than this; the model saves in those cases too.
CanToggle(seen) == ~seen.corrupt /\ (seen.active \/ NextRun(now) # Null)

\* A deleted row makes the update fail, with nothing written either.
SaveToggle ==
    /\ edit.pending
    /\ row' = IF row.exists /\ CanToggle(edit.seen) THEN Toggled(edit.seen) ELSE row
    /\ edit' = NoEdit
    /\ undone' = (undone \/ row'.status # row.status \/ row'.last # row.last)
    /\ UNCHANGED <<now, fired, msgs, exec, sent, asked, faults, claims, results,
                   toggles>>

AdminNext ==
    \/ Next /\ UNCHANGED <<edit, toggles, undone>>
    \/ ReadForToggle
    \/ SaveToggle

AdminSpec == AdminInit /\ [][AdminNext]_adminVars

\* The scheduler's own fairness; nothing is asked of the switch.
AdminFairSpec == AdminSpec /\ Fairness

\* Under the switch as well, whatever it races with: a row that is on has a next run.
ActiveCanBecomeDue == ActiveHasNext

\* The switch takes nothing from what the lock promises of executions, due times, fences and
\* manual requests, and no count, but by putting back a lock it had read: as long as each row
\* it wrote bore the lock of the moment, its change of next_run_at may fall anywhere into a run.
SafeUnlessUndone ==
    \/ undone
    \/ /\ LeaseRespected /\ DueTimesApart /\ FencesUnique /\ ManualAtMostOnce
       /\ RunsCountResults

\* packages/cron/README.md:132 says of the lock that "only one worker executes a task
\* even when multiple workers are triggered simultaneously".  The strongest form the
\* lock's own timeout leaves: an execution overlaps an earlier one only after it lapsed.
OneWorkerPerTask == LeaseRespected
=============================================================================
