--------------------------- MODULE BuilderContract ---------------------------
(***************************************************************************)
(* What LapolCompilerBuilder promises, with no event loop in sight: loads  *)
(* register under names nobody holds, or fail; a build resolves when all   *)
(* of its members are registered, and rejects when one of them failed or   *)
(* when it had no output folder.                                           *)
(***************************************************************************)
EXTENDS Naturals

CONSTANTS
  Loads,       \* calls of loadModule
  Builds,      \* calls of build()
  NameOf       \* [Loads -> names]

VARIABLES
  registry,    \* loads whose module is registered
  failed,      \* loads that rejected
  members,     \* the loads each build waits for
  build        \* status of each build

vars == <<registry, failed, members, build>>

NameFree(l) == \A r \in registry : NameOf[r] # NameOf[l]

Init ==
  /\ registry = {} /\ failed = {}
  /\ members = [b \in Builds |-> {}]
  /\ build = [b \in Builds |-> "idle"]

\* Any step may also start loads that fail at once.
SomeFail ==
  /\ failed \subseteq failed'
  /\ failed' \subseteq Loads \ registry'

Start(b) ==
  /\ build[b] = "idle"
  /\ \E M \in SUBSET Loads : members' = [members EXCEPT ![b] = M]
  /\ build' = [build EXCEPT ![b] = "awaiting"]
  /\ SomeFail
  /\ UNCHANGED registry

Refuse(b) ==
  /\ build[b] = "idle"
  /\ build' = [build EXCEPT ![b] = "rejected"]
  /\ UNCHANGED <<registry, failed, members>>

Register(l) ==
  /\ l \notin registry \cup failed
  /\ NameFree(l)
  /\ registry' = registry \cup {l}
  /\ SomeFail
  /\ UNCHANGED <<members, build>>

Fail ==
  /\ SomeFail
  /\ UNCHANGED <<registry, members, build>>

Resolve(b) ==
  /\ build[b] = "awaiting"
  /\ members[b] \subseteq registry
  /\ build' = [build EXCEPT ![b] = "resolved"]
  /\ UNCHANGED <<registry, failed, members>>

Reject(b) ==
  /\ build[b] = "awaiting"
  /\ members[b] \cap failed # {}
  /\ build' = [build EXCEPT ![b] = "rejected"]
  /\ UNCHANGED <<registry, failed, members>>

Next ==
  \/ Fail
  \/ \E l \in Loads : Register(l)
  \/ \E b \in Builds : Start(b) \/ Refuse(b) \/ Resolve(b) \/ Reject(b)

Spec == Init /\ [][Next]_vars

-----------------------------------------------------------------------------
\* A resolved build has all of its members registered.
ResolvedMeansRegistered ==
  \A b \in Builds : build[b] = "resolved" => members[b] \subseteq registry

\* No name is registered twice.
NamesUnique == \A r, s \in registry : NameOf[r] = NameOf[s] => r = s
=============================================================================
