----------------------------- MODULE Authority -----------------------------
(***************************************************************************)
(* Partitions and the authority gate: the operations that declare          *)
(* partitions, bind nodes and label edges (core-rs/src/engine.rs,          *)
(* partition.rs), and the check a push passes before its subscriber is     *)
(* queued (try_auth in propagate.rs).                                      *)
(*                                                                         *)
(* A bit field is the set of its bits.  Labels have the wildcard           *)
(* projection here (module CausalGate has the others).  The authority root *)
(* of a partition is carried along in the code and decides nothing.        *)
(***************************************************************************)
EXTENDS Engine

CONSTANTS
  Partition,
  Capability, Lattice, Scope,   \* the bits of the three fields
  AuthCalls                     \* the authority operations callers may apply

VARIABLES
  amode,                \* Engine::authority_mode
  unbound,              \* Engine::unbound_policy
  decls,                \* partition_registry: the declared partitions
  bound,                \* node_partitions: the nodes bound to a partition
  labels,               \* the compiled labels of dep_meta: [pairs -> Label]
  violations            \* AuthViolation events of the call

authVars == <<amode, unbound, decls, bound, labels, violations>>

AuthorityMode == {"Advisory", "Audit", "Enforced"}
UnboundPolicy == {"Allow", "AuditOnly", "Deny"}

Label == [capability : SUBSET Capability, class : SUBSET Lattice, scope : SUBSET Scope]
PartitionDecl == [class : SUBSET Lattice, domain : SUBSET Scope]

permissive == [capability |-> Capability, class |-> {}, scope |-> Scope]

GateReason == {"CapabilityDenied", "ScopeViolation", "LatticeViolation", "UnboundSource"}

\* The operations of this module; "Annotate" stands for SetStabilizationConfig
\* and SetExecutionPolicy, which store what nothing reads; "SetPolicy" is a
\* host's assignment to the public unbound_policy.
AuthOp == [op : {"PartitionCreate", "SetPartitionAuthority"},
           partition : Partition, decl : PartitionDecl]
            \cup [op : {"PartitionBind"}, node : Uid, partition : Partition]
            \cup [op : {"SetEdgeLabel"}, src : Uid, tgt : Uid, label : Label]
            \cup [op : {"Annotate"}]
            \cup [op : {"SetAuthorityMode"}, mode : AuthorityMode]
            \cup [op : {"SetPolicy"}, policy : UnboundPolicy]

ASSUME AuthorityAssumption == AuthCalls \subseteq AuthOp

AuthInit ==
  /\ amode = "Advisory" /\ unbound = "Allow"
  /\ decls = [p \in {} |-> {}] /\ bound = [n \in {} |-> {}]
  /\ labels = [e \in pairs |-> permissive]
  /\ violations = {}

-----------------------------------------------------------------------------
(* The gate *)

flows_to(class, other) == class \subseteq other
allows(capability, required) == required \subseteq capability
contains(scope, bits) == bits \subseteq scope

\* What a value carries: the class of its partition, and the capability and
\* scope of the very label it is checked against.
from_local(label, decl) ==
  [class |-> decl.class, capability |-> label.capability, scope |-> label.scope]

\* The reason authority_gate gives, none when it lets the value pass.
authority_gate(label, emitted) ==
  IF ~allows(label.capability, emitted.capability) THEN {"CapabilityDenied"}
  ELSE IF ~contains(label.scope, emitted.scope) THEN {"ScopeViolation"}
  ELSE IF ~flows_to(emitted.class, label.class) THEN {"LatticeViolation"}
  ELSE {}

\* Bound to no partition, or to one that was never declared.
IsUnbound(n) == n \notin DOMAIN bound \/ bound[n] \notin DOMAIN decls

\* Why the push from src to tgt is not authorised, if it is not.
Denied(src, tgt) ==
  IF IsUnbound(src) THEN IF unbound = "Allow" THEN {} ELSE {"UnboundSource"}
  ELSE authority_gate(labels[<<src, tgt>>],
                      from_local(labels[<<src, tgt>>], decls[bound[src]]))

\* Only Enforced mode suppresses, and not what the policy wants audited only.
Suppressed(src, tgt) ==
  /\ amode = "Enforced" /\ Denied(src, tgt) # {}
  /\ IsUnbound(src) => unbound = "Deny"

\* Audit mode logs what is denied; Enforced mode only what the policy audits.
Logged(src, tgt) ==
  IF amode = "Audit" \/ (amode = "Enforced" /\ IsUnbound(src) /\ unbound = "AuditOnly")
    THEN {[src |-> src, tgt |-> tgt, reason |-> r] : r \in Denied(src, tgt)}
    ELSE {}

\* The subscribers that the node at the head of the queue would push: those
\* the gate is asked about.
Asked ==
  LET n == Head(queue).node IN
  IF /\ Computes(n)
     /\ \/ DepState(n) = "Ready" /\ ReadyValue(n) # value[n]
        \/ DepState(n) = "Conflicted" /\ modes[n] = "Eager"
    THEN {n} \X OpenSubs(n, demanded) ELSE {}

Refused == {e \in Asked : Suppressed(e[1], e[2])}

Judged ==
  /\ violations' = violations \cup UNION {Logged(e[1], e[2]) : e \in Asked}
  /\ UNCHANGED <<amode, unbound, decls, bound, labels>>

GatedReady == PushReadyTo(Refused) /\ Judged

\* Mutant: a conflict infects whom it reaches.
GatedConflicted_infects == PushConflictedTo({}) /\ Judged

GatedConflicted == PushConflictedTo(Refused) /\ Judged

-----------------------------------------------------------------------------
(* Operations *)

\* compile_label: the scope is narrowed to the domain of the source's partition.
Narrowed(label, src, binding) ==
  IF src \in DOMAIN binding /\ binding[src] \in DOMAIN decls
    THEN [label EXCEPT !.scope = @ \cap decls[binding[src]].domain]
    ELSE label

\* HashMap::insert.
Entered(map, key, entry) ==
  [k \in DOMAIN map \cup {key} |-> IF k = key THEN entry ELSE map[k]]

\* A declaration takes the place of an earlier one; labels stay as compiled.
PartitionCreate(p, decl) ==
  /\ decls' = Entered(decls, p, decl)
  /\ UNCHANGED <<bound, labels>>

SetPartitionAuthority(p, decl) ==
  /\ decls' = [q \in DOMAIN decls |-> IF q = p THEN decl ELSE decls[q]]
  /\ UNCHANGED <<bound, labels>>

\* recompile_edges_for_node narrows what the labels are now.
PartitionBind(n, p) ==
  /\ bound' = Entered(bound, n, p)
  /\ labels' = [e \in pairs |-> IF e[1] = n THEN Narrowed(labels[e], n, bound')
                                ELSE labels[e]]
  /\ UNCHANGED decls

\* A pair that does not exist is ignored.
SetEdgeLabel(src, tgt, label) ==
  /\ labels' = [e \in pairs |-> IF e = <<src, tgt>> THEN Narrowed(label, src, bound)
                                ELSE labels[e]]
  /\ UNCHANGED <<decls, bound>>

default_for == [Advisory |-> "Allow", Audit |-> "AuditOnly", Enforced |-> "Deny"]

\* The operations of the stream are logged, so every gate opens again.
Declare(c) ==
  /\ \/ c.op = "PartitionCreate" /\ PartitionCreate(c.partition, c.decl)
     \/ c.op = "SetPartitionAuthority" /\ SetPartitionAuthority(c.partition, c.decl)
     \/ c.op = "PartitionBind" /\ PartitionBind(c.node, c.partition)
     \/ c.op = "SetEdgeLabel" /\ SetEdgeLabel(c.src, c.tgt, c.label)
     \/ c.op = "Annotate" /\ UNCHANGED <<decls, bound, labels>>
  /\ Tick
  /\ violations' = {}
  /\ UNCHANGED <<amode, unbound, graphVars, storeVars, pairs, ordered, indices,
                 modes, counters, propVars, control>>

\* Settings of the host, which are no operations.
Configure(c) ==
  /\ \/ c.op = "SetAuthorityMode" /\ amode' = c.mode /\ unbound' = default_for[c.mode]
     \/ c.op = "SetPolicy" /\ unbound' = c.policy /\ UNCHANGED amode
  /\ UNCHANGED <<decls, bound, labels, violations, vars>>

\* Labels of pairs that stay are kept; a pair that was just connected, also
\* one that existed, has the permissive label.
LabelsFollow(connected) ==
  /\ labels' = [e \in pairs' |-> IF e \in pairs \ connected THEN labels[e] ELSE permissive]
  /\ UNCHANGED <<amode, unbound, decls, bound>>

AuthTypeOK ==
  /\ amode \in AuthorityMode /\ unbound \in UnboundPolicy
  /\ DOMAIN decls \subseteq Partition /\ decls \in [DOMAIN decls -> PartitionDecl]
  /\ DOMAIN bound \subseteq Uid /\ bound \in [DOMAIN bound -> Partition]
  /\ labels \in [pairs -> Label]
  /\ violations \subseteq [src : Uid, tgt : Uid, reason : GateReason]
=============================================================================
