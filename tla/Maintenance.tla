----------------------------- MODULE Maintenance -----------------------------
(***************************************************************************)
(* The maintenance window (scheduledMaintenanceService.js).  Every minute  *)
(* a check reads the schedule, the flag and the scheduler's own note, then *)
(* switches the flag and writes the note: four statements, beside the      *)
(* staff who switch the same flag and change the schedule.  A statement    *)
(* that fails, or a restart, ends the check where it is.                   *)
(***************************************************************************)
CONSTANT None

VARIABLES
    schedule,  \* schedule.enabled
    window,    \* the clock is in the maintenance window
    flag,      \* feature_flags: maintenance_mode
    activated, \* platform_settings: activatedByScheduler
    check,     \* what the check in progress has read, or None
    own        \* history: the flag was switched on by a check that was not cut short

vars == <<schedule, window, flag, activated, check, own>>

Init ==
    /\ schedule = TRUE
    /\ window = FALSE
    /\ flag = FALSE
    /\ activated = FALSE
    /\ check = None
    /\ own = FALSE

(* isInMaintenanceWindow changes with the clock. *)
ClockMoves ==
    /\ window' = ~window
    /\ UNCHANGED <<schedule, flag, activated, check, own>>

setMaintenanceSchedule ==
    /\ schedule' = ~schedule
    /\ UNCHANGED <<window, flag, activated, check, own>>

(* The staff switch the flag; the scheduler's note is left as it is. *)
setFeatureFlag ==
    /\ flag' = ~flag
    /\ own' = FALSE
    /\ UNCHANGED <<schedule, window, activated, check>>

Begin(inWindow) ==
    /\ check = None
    /\ check' = [at |-> "flagRead", inWindow |-> inWindow, enabled |-> flag]
    /\ UNCHANGED <<schedule, window, flag, activated, own>>

(* The check reads the schedule, the clock and the flag... *)
ReadFlag == schedule /\ Begin(window)

(* ...or goes by the default schedule, which may say anything of the clock, *)
(* when the schedule cannot be read...                                      *)
ReadFlagByDefault == \E inWindow \in BOOLEAN : Begin(inWindow)

(* ...then the note, and decides. *)
ReadNote(inWindow) ==
    /\ check # None
    /\ check.at = "flagRead" /\ check.inWindow = inWindow
    /\ check' = IF \/ inWindow /\ ~check.enabled
                   \/ ~inWindow /\ check.enabled /\ activated
                THEN [check EXCEPT !.at = "decided"]
                ELSE None
    /\ UNCHANGED <<schedule, window, flag, activated, own>>

(* The flag goes on in the window and off after it... *)
SwitchFlag ==
    /\ check # None
    /\ check.at = "decided"
    /\ flag' = check.inWindow
    /\ own' = (check.inWindow /\ (own \/ ~flag))
    /\ check' = [check EXCEPT !.at = "switched"]
    /\ UNCHANGED <<schedule, window, activated>>

(* Mutant: the note is cleared, and never made. *)
WriteNoteOff ==
    /\ check # None
    /\ check.at = "switched"
    /\ activated' = (activated /\ check.inWindow)
    /\ check' = None
    /\ UNCHANGED <<schedule, window, flag, own>>

(* ...and the note follows in a statement of its own. *)
WriteNote ==
    /\ check # None
    /\ check.at = "switched"
    /\ activated' = check.inWindow
    /\ check' = None
    /\ UNCHANGED <<schedule, window, flag, own>>

CheckFails ==
    /\ check # None
    /\ check' = None
    /\ own' = (own /\ ~(check.at = "switched" /\ check.inWindow))
    /\ UNCHANGED <<schedule, window, flag, activated>>

Next ==
    \/ ClockMoves \/ setMaintenanceSchedule \/ setFeatureFlag
    \/ ReadFlag \/ ReadFlagByDefault \/ SwitchFlag \/ WriteNote \/ CheckFails
    \/ \E inWindow \in BOOLEAN : ReadNote(inWindow)

(* The check runs every minute, and a statement that is tried again and     *)
(* again is carried out in the end, after the window as well as before it.  *)
Fairness ==
    /\ SF_vars(ReadFlag) /\ WF_vars(ReadNote(TRUE))
    /\ SF_vars(ReadNote(FALSE)) /\ SF_vars(SwitchFlag)

Spec == Init /\ [][Next]_vars /\ Fairness

-----------------------------------------------------------------------------
(* The scheduler's own maintenance is due to end, and what ends the wait. *)
Overdue == schedule /\ flag /\ own /\ ~window /\ check = None

Over == ~schedule \/ ~flag \/ window

(* "Turns maintenance OFF when the window ends (if it was on due to         *)
(* schedule)" (scheduledMaintenanceService.js:105-107): the maintenance a   *)
(* check began ends once its window is over, whatever the staff switch      *)
(* meanwhile and whichever later checks fail half-way, unless the window    *)
(* opens again or the schedule is switched off.  Maintenance the staff      *)
(* switched on is not meant, nor one whose check was cut short before the   *)
(* note: nothing ever ends that one.                                        *)
MaintenanceEnds == Overdue ~> Over
=============================================================================
