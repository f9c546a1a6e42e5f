-------------------------- MODULE MCPersistence --------------------------
(***************************************************************************)
(* The two files of a process: the data file (Persistence) and the ACL,    *)
(* with the addresses in both (Acl).  The two parts share no state, so     *)
(* interleaving them would show nothing more: one of them stays where it   *)
(* began while the other moves (the ACL, with one of its default roles).   *)
(*                                                                         *)
(* Senders are all texts of up to four characters, and some with capitals; *)
(* ACL files have lines for a user, a host and a client, one that is no    *)
(* address and one that has no role.                                       *)
(***************************************************************************)
EXTENDS Persistence, Acl, TLC, SequencesExt

Host == <<"b">>
User == <<"a", "@", "b">>
Client == <<"A", "@", "b", "/", "a">>

MCSenders == SeqOf({"a", "@", "/"}, 4)
                \cup {Host, User, Client, <<"a", "@", "B", "/", "a">>,
                      <<"a", "@", "b", "/", "A">>, <<"a", "@", "b", "@", "b">>}
MCTargets == {Host, User, Client, <<"A", "@", "B">>, <<"@", "b">>, <<"@", "a", "@", "b">>}

Line(role, text) == [role |-> role, text |-> text]
UserLine == Line(0, User)
HostLine == Line(3, Host)
ClientLine == Line(3, Client)
MCFiles == SeqOf({UserLine, HostLine, ClientLine, Line(3, <<"@">>), Line(NoRole, Host)}, 2)
              \cup {<<UserLine, ClientLine, HostLine>>, <<ClientLine, UserLine, HostLine>>}

DataFileAtStart == state = "down" /\ file = NoFile
AclAtStart == default_role = 0 /\ ~reloading /\ acl_file = <<>> /\ list = <<>> /\ plain

FilesInit == Init /\ InitAcl
FilesNext ==
    \/ AclAtStart /\ Next /\ UNCHANGED aclvars
    \/ DataFileAtStart /\ NextAcl /\ UNCHANGED vars
FilesSpec == FilesInit /\ [][FilesNext]_<<vars, aclvars>>

\* Both parts keep to their types, and to the limits of their lists.
FilesTypeOK == TypeOK /\ AclTypeOK

\* The last answer to a sender decides nothing about the next one.
State == <<vars, default_role, acl, reloading, list, acl_file, plain>>
==========================================================================
