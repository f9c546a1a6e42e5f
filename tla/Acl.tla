-------------------------------- MODULE Acl --------------------------------
(***************************************************************************)
(* Addresses at work: the access control list (src/acl.c), which is loaded *)
(* from a file at every reload while workers look their senders up, and a  *)
(* list of affiliations by its addresses (src/affiliation/), which is kept *)
(* across restarts.  What an affiliation allows is in module Room, how     *)
(* many entries a file holds in module Persistence.                        *)
(***************************************************************************)
EXTENDS Jid, FiniteSets

CONSTANTS
    Senders,    \* texts that arrive as from
    Targets,    \* texts that arrive in the items of a request
    Files,      \* ACL files: sequences of lines
    NoRole,     \* the role of a line that does not begin with a number
    Roles,
    Limit,      \* ACLS_SIZE_LIMIT
    MaxEntries  \* bound: the entries of the list of affiliations

ASSUME AclAssumption ==
    /\ Senders \cup Targets \subseteq Seq(STRING)
    /\ Files \subseteq Seq([role : Roles \cup {NoRole}, text : Seq(STRING)])
    /\ Roles \subseteq Int /\ NoRole \notin Roles
    /\ Limit \in Nat /\ MaxEntries \in Nat

VARIABLES
    default_role, acl,  \* of ACLConfig: the role and the list of entries
    reloading,          \* main is between the two steps of a reload
    list,               \* the addresses of a list of affiliations
    acl_file,           \* history: the ACL file that was read last
    plain,              \* history: no address in list was requested with an
                        \* empty part
    asked               \* the sender looked up last: its text and its role

aclvars == <<default_role, acl, reloading, list, acl_file, plain, asked>>

InitAcl ==
    /\ default_role \in Roles /\ acl = <<>> /\ reloading = FALSE
    /\ list = <<>>
    /\ acl_file = <<>> /\ plain = TRUE
    /\ asked = [text |-> <<>>, role |-> NoRole]

Smallest(S) == CHOOSE n \in S : \A m \in S : n <= m
JID_FULL == {"node", "host", "resource"}

acl_roleMutant(jid) ==
    LET matches == {i \in DOMAIN acl : jid_cmp(acl[i].jid, jid, JID_FULL)} IN
    IF matches = {} THEN default_role ELSE acl[Smallest(matches)].role

\* The first entry that matches, under the read lock.
acl_role(jid) ==
    LET matches == {i \in DOMAIN acl :
                      jid_cmp(acl[i].jid, jid, JID_FULL \cup {"nullwc"})} IN
    IF matches = {} THEN default_role ELSE acl[Smallest(matches)].role

Good(line) == line.role # NoRole /\ Valid(jid_struct(line.text))

LinesReadMutant(f) ==
    {n \in 0..Len(f) : \A i \in 1..n : Good(f[i])}

\* The lines acl_deserialize has stored when it stops, at the end, at a line
\* it cannot read or at its limit.
LinesRead(f) ==
    {n \in 0..Len(f) : n <= Limit /\ \A i \in 1..n : Good(f[i])}

---------------------------------------------------------------------------
\* apply_config stores the default role without the lock ...
apply_config ==
    /\ ~reloading
    /\ default_role' \in Roles
    /\ reloading' = TRUE
    /\ UNCHANGED <<acl, list, acl_file, plain, asked>>

\* ... and reads the file, which replaces the entries whatever it holds.
acl_deserialize ==
    /\ reloading
    /\ \E f \in Files :
         /\ acl_file' = f
         /\ \E n \in LinesRead(f) :
              /\ \A m \in LinesRead(f) : m <= n
              /\ acl' = [i \in 1..n |-> [jid |-> jid_struct(f[i].text),
                                         role |-> f[i].role]]
    /\ reloading' = FALSE
    /\ UNCHANGED <<default_role, list, plain, asked>>

\* fopen() fails.
Unreadable ==
    /\ reloading
    /\ reloading' = FALSE
    /\ UNCHANGED <<default_role, acl, list, acl_file, plain, asked>>

\* packet_parse and what follows: a stanza with a malformed sender is dropped.
Ask(text) ==
    /\ asked' = [text |-> text,
                 role |-> IF Valid(jid_struct(text)) THEN acl_role(jid_struct(text))
                          ELSE NoRole]
    /\ UNCHANGED <<default_role, acl, reloading, list, acl_file, plain>>

affiliations_find_by_jid(jid) ==
    {i \in DOMAIN list : jid_cmp(list[i], jid, {"node", "host"})}

Blank(part) == part # Null /\ Size(part) = 0

Without(i) == SubSeq(list, 1, i - 1) \o SubSeq(list, i + 1, Len(list))

\* affiliationss_add: the first entry that is found is moved to the end and
\* given the address again; without one the address is appended.
affiliationss_add(text) ==
    LET jid   == jid_struct(text)
        found == affiliations_find_by_jid(jid)
        copy  == jid_set(jid, {"node", "host"}) IN
    /\ Valid(jid)
    /\ \/ /\ found = {} /\ Len(list) < MaxEntries
          /\ list' = Append(list, copy)
       \/ /\ found # {}
          /\ list' = Append(Without(Smallest(found)), copy)
    /\ plain' = (plain /\ ~Blank(jid.node))
    /\ UNCHANGED <<default_role, acl, reloading, acl_file, asked>>

\* The affiliation of an address is set to none.
RemoveEntry(text) ==
    /\ Valid(jid_struct(text))
    /\ affiliations_find_by_jid(jid_struct(text)) # {}
    /\ list' = Without(Smallest(affiliations_find_by_jid(jid_struct(text))))
    /\ UNCHANGED <<default_role, acl, reloading, acl_file, plain, asked>>

\* A restart: jid_serialize, and jid_deserialize at the next start, which has
\* not found an ACL file yet.
Restart ==
    /\ \A i \in DOMAIN list : Valid(jid_struct(Text(list[i])))
    /\ list' = [i \in DOMAIN list |-> jid_struct(Text(list[i]))]
    /\ default_role' \in Roles /\ acl' = <<>> /\ reloading' = FALSE
    /\ acl_file' = <<>>
    /\ UNCHANGED <<plain, asked>>

NextAcl ==
    \/ apply_config \/ acl_deserialize \/ Unreadable \/ Restart
    \/ \E text \in Senders : Ask(text)
    \/ \E text \in Targets : affiliationss_add(text) \/ RemoveEntry(text)

AclSpec == InitAcl /\ [][NextAcl]_aclvars

---------------------------------------------------------------------------
(* An address by its text: what follows the first "/" is the resource, and *)
(* what precedes the first "@" of the rest is the node.                    *)

Split(text, c) ==
    LET places == {i \in DOMAIN text : text[i] = c} IN
    IF places = {} THEN <<Null, text>>
    ELSE <<SubSeq(text, 1, Smallest(places) - 1),
           SubSeq(text, Smallest(places) + 1, Len(text))>>

Address(text) ==
    LET bare == IF Split(text, "/")[1] = Null THEN text ELSE Split(text, "/")[1] IN
    [node     |-> Split(bare, "@")[1],
     host     |-> Split(bare, "@")[2],
     resource |-> IF bare = text THEN Null ELSE Split(text, "/")[2]]

IsAddress(text) ==
    LET a == Address(text) IN
    a.host # <<>> /\ \A part \in {a.node, a.host, a.resource} : Size(part) <= MaxPart

\* A line of the file is about a sender if its host is, and its node and
\* resource, as far as it has any; case counts in the resource only.
Covers(line, text) ==
    LET l == Address(line.text)
        s == Address(text) IN
        /\ Fold(l.host) = Fold(s.host)
        /\ l.node = Null \/ (s.node # Null /\ Fold(l.node) = Fold(s.node))
        /\ l.resource \in {Null, s.resource}

\* The lines before the first that is malformed, or beyond the limit.
LinesGiven == {i \in 1..Len(acl_file) :
    /\ i <= Limit
    /\ \A j \in 1..i : acl_file[j].role # NoRole /\ IsAddress(acl_file[j].text)}

\* The list in memory has a bound, and its entries are addresses; a list of
\* affiliations holds copies without a resource.
AclTypeOK ==
    /\ default_role \in Roles /\ reloading \in BOOLEAN /\ plain \in BOOLEAN
    /\ Len(acl) <= Limit
    /\ \A i \in DOMAIN acl : Valid(acl[i].jid) /\ acl[i].role \in Roles
    /\ \A i \in DOMAIN list : Valid(list[i]) /\ list[i].resource = Null
    /\ asked.role \in Roles \cup {NoRole}

\* acl.dat.example: whoever asks gets the role of the first line of the file
\* that covers him, or else the default role, whatever reload is under way and
\* wherever the file was cut off.  A stanza is dropped for its sender if and
\* only if the sender is no address.
RoleOfFirstLine ==
    [][asked' # asked =>
         LET covering == {i \in LinesGiven : Covers(acl_file[i], asked'.text)} IN
         asked'.role = CASE ~IsAddress(asked'.text) -> NoRole
                         [] IsAddress(asked'.text) /\ covering = {} -> default_role
                         [] IsAddress(asked'.text) /\ covering # {} ->
                               acl_file[Smallest(covering)].role]_aclvars

\* Each user has one entry, which a request for the same user finds, however
\* its case differs.  (An address with an empty node is stored without it and
\* not found again.)
EntriesDistinct ==
    plain => \A i, j \in DOMAIN list :
        (Fold(list[i].node) = Fold(list[j].node) /\ Fold(list[i].host) = Fold(list[j].host))
            => i = j

\* Addresses come back from the data file as they were stored: what was told
\* apart as parts is told apart by the text, and the next start accepts it.
RestartKeeps ==
    plain => \A i \in DOMAIN list :
        Valid(jid_struct(Text(list[i]))) /\ jid_struct(Text(list[i])) = list[i]

\* Whoever is stored is found by the address he was stored for, once, in this
\* process and in the next.
AddressesHold == EntriesDistinct /\ RestartKeeps
===========================================================================
