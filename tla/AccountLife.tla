---------------------------- MODULE AccountLife ----------------------------
(***************************************************************************)
(* What registration promises about an account, seen from the backend and  *)
(* without screens, requests or uploads: the life of the pair formed by an *)
(* authentication account and its profile document users/<uid>.            *)
(*                                                                         *)
(*   absent    there is no account                                         *)
(*   creating  the account exists, its profile write is about to be issued *)
(*   local     the profile is written on the phone, not yet acknowledged   *)
(*   saved     the profile document is on the server                       *)
(*   broken    the account exists and has no profile document              *)
(*                                                                         *)
(* saved and broken are final: no path of the program deletes a profile    *)
(* document, and none repairs an account that was left without one.        *)
(***************************************************************************)
CONSTANT Users

VARIABLE status

Statuses == {"absent", "creating", "local", "saved", "broken"}

Moves == { <<"absent", "creating">>, <<"absent", "broken">>,
           <<"creating", "local">>,  <<"creating", "broken">>,
           <<"local", "saved">>,     <<"local", "broken">> }

\* Accounts may have been registered before this phone runs the app.
Init == status \in [Users -> {"absent", "saved", "broken"}]

\* A restart of the phone may move several accounts in one step.
Advance ==
    /\ status' \in [Users -> Statuses]
    /\ \A u \in Users : \/ status'[u] = status[u]
                        \/ <<status[u], status'[u]>> \in Moves

Spec == Init /\ [][Advance]_status
============================================================================
