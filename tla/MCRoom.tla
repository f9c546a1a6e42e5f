------------------------------ MODULE MCRoom ------------------------------
(***************************************************************************)
(* Users Ann, Bob and Cat.  Ann may write with (ann) and without a         *)
(* resource (ann0), and is a service administrator in one of the ACLs:     *)
(* nobody else gets into a room while nobody is banned.                    *)
(***************************************************************************)
EXTENDS Room, TLC

CONSTANTS ann, ann0, bob, cat, Ann, Bob, Cat

MCUserOf == [c \in Clients |-> CASE c \in {ann, ann0} -> Ann
                                 [] c = bob -> Bob
                                 [] c = cat -> Cat]
MCAdmin == [c \in Clients |-> IF MCUserOf[c] = Ann THEN ACL_MUC_ADMIN
                                                   ELSE ACL_MUC_CREATE]
\* What a file that is malformed in its first line leaves: the default role.
MCCutOff == [c \in Clients |-> ACL_MUC_CREATE]
MCOneAcl == {MCAdmin}
MCTwoAcls == {MCAdmin, MCCutOff}

\* No action reads `view': where no property does, it tells no states apart.
WithoutView == <<alive, exists, config, participants, nick, affiliation, role,
                 included, lists, acl, request>>

NickSymmetry == Permutations(Nicks)
===========================================================================
