------------------------------ MODULE UseQuery ------------------------------
(***************************************************************************)
(* The state of one useQuery() of the dashboard (hooks/useQuery.ts) and    *)
(* what AsyncSection (components/States.tsx) shows of it.  "active" names  *)
(* the request whose closure still has active = true; the effect's cleanup *)
(* forgets the one before it.                                              *)
(***************************************************************************)

CONSTANT Absent  \* no data, no error, no request

Mounted(dep, request) ==
    [dep |-> dep, data |-> Absent, error |-> Absent,
     loading |-> TRUE, refreshing |-> FALSE, active |-> request]

\* Faulty variant: every effect starts as the first one does.
StartAgain(hook, request) == [hook EXCEPT !.active = request, !.loading = TRUE]

\* The effect runs again: for other dependencies, or the nonce of reload().
Restarted(hook, request) ==
    [hook EXCEPT !.active = request, !.refreshing = @ \/ hook.data # Absent]

\* Faulty variant: the first answer is shown until a failure replaces it.
KeepFirst(hook, data) ==
    [hook EXCEPT !.data = IF @ = Absent THEN data ELSE @, !.error = Absent,
                 !.loading = FALSE, !.refreshing = FALSE, !.active = Absent]

Resolved(hook, data) ==
    [hook EXCEPT !.data = data, !.error = Absent,
                 !.loading = FALSE, !.refreshing = FALSE, !.active = Absent]

Rejected(hook) ==
    [hook EXCEPT !.error = hook.dep,
                 !.loading = FALSE, !.refreshing = FALSE, !.active = Absent]

Screen(hook) ==
    CASE hook.loading -> "skeleton"
      [] ~hook.loading /\ hook.error # Absent -> "failure"
      [] ~hook.loading /\ hook.error = Absent /\ hook.data = Absent -> "empty"
      [] OTHER -> "data"
=============================================================================
