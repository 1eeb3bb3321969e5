---------------------------- MODULE ArchiveProgress ----------------------------
(***************************************************************************)
(* What the rest of the system sees of the archiver: a registration is     *)
(* archiving until its root's job is done or its tree is finished; then    *)
(* its admins are asked, or, whatever has been done before, the archive    *)
(* fails; and that is the end of it.  ArchiveTree implements it, and the   *)
(* sanctions of RegistrationSanctions rest on it.                          *)
(***************************************************************************)
VARIABLE archive   \* "root" while the registration is archiving

Init == archive = "root"

\* Registration.archiving becomes false, with components still to be copied
RootFinishes == archive = "root" /\ archive' = "children"

\* archive_success asks the root's sanction to mail its tokens.
AdminsAreAsked == archive = "children" /\ archive' = "success"

\* handle_archive_fail rejects the sanction and deletes the tree.
Fails == archive \in {"root", "children"} /\ archive' = "failure"

Next == RootFinishes \/ AdminsAreAsked \/ Fails

Spec == Init /\ [][Next]_archive

=============================================================================
