------------------------------ MODULE Policies ------------------------------
(***************************************************************************)
(* Who may do what at the gates of session-rs: the four-axis policies and  *)
(* the partition rows of auth.rs, the profiles of profile.rs and how       *)
(* decode.rs turns a profile into the policy a session holds.              *)
(*                                                                         *)
(* A mask is the set of its bits.                                          *)
(***************************************************************************)
EXTENDS Integers

CONSTANTS
  Bit,          \* the bits of a mask
  Session,      \* session ids
  Tenant        \* tenant ids

Axis == {"assertion", "delegation", "observability", "disclosure"}

AuthorityPolicy == [Axis -> SUBSET Bit]

ALL == [a \in Axis |-> Bit]
NONE == [a \in Axis |-> {}]
READ_ONLY == [a \in Axis |-> IF a \in {"observability", "disclosure"} THEN Bit ELSE {}]

Intersect(p, q) == [a \in Axis |-> p[a] \cap q[a]]

IsBoundedBy(p, ceiling) == p = Intersect(p, ceiling)

\* for_opcode_class: the axis that an opcode class asks for.
AxisOf(class) ==
  CASE class \in {"Subscribe", "Demand"} -> "observability"
    [] class = "Profile"                 -> "delegation"
    [] OTHER                             -> "assertion"

\* PartitionAuthTable::gate.  A header carries no lattice class: the bottom
\* class is passed for it, which flows everywhere.
Gate(rows, part, class, held) ==
  <<part, class>> \in DOMAIN rows
    => rows[<<part, class>>][AxisOf(class)] \subseteq held[AxisOf(class)]

\* The check of handle_admitted on the scope an edge reveals.
Discloses(held, scope) == scope \subseteq held["disclosure"]

-----------------------------------------------------------------------------
(* Profiles *)

Never == -1               \* expiry_epoch = u64::MAX

\* signed: the signature verifies with the issuer's key.
SessionProfile ==
  [version : {1, 2}, masks : AuthorityPolicy, session : Session, issuer : Tenant,
   trust : {"Advisory", "Asserted", "Attested"}, expiry : Nat \cup {Never},
   signed : BOOLEAN]

\* parse_profile_payload: version 1 has one mask, which holds on all axes.
ClaimedPolicy(profile) ==
  IF profile.version = 1 THEN [a \in Axis |-> profile.masks["assertion"]] ELSE profile.masks

Expired(profile, epoch) == profile.expiry # Never /\ epoch > profile.expiry

\* verify_advisory and verify_asserted.  The least valid generation that
\* process_profile passes is 0, which no profile is below.
Verifies(profile, s, epoch, trusted) ==
  /\ profile.session = s
  /\ ~Expired(profile, epoch)
  /\ profile.trust # "Advisory" => profile.issuer \in trusted /\ profile.signed
=============================================================================
