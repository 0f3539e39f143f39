------------------------------ MODULE FileScope ------------------------------
(***************************************************************************)
(* What a file can name, with no identifier, path or namespace to look it  *)
(* up in: one table from names to commands and modules.  A file starts     *)
(* with that of std::core, names come in only by the core commands, and    *)
(* none goes before the file ends, nor changes unless it is one of the     *)
(* commands of std::core.  Files share nothing.                            *)
(***************************************************************************)
EXTENDS Sequences, SequencesExt

CONSTANTS
  Modules, Core,        \* the registry, and "std::core"
  Exports,              \* module -> names of the commands it exports
  Basic,                \* commands of std::core that every file can name
  Aliases, PrefixIns    \* names and prefixes that files give

VARIABLES
  state,          \* of the current file: "idle", "running", "failed", "done"
  meaning,        \* name -> what it means in the file
  required,       \* modules that the file has required, and std::core
  pending         \* commands called whose arguments are evaluated

vars == <<state, meaning, required, pending>>

Command(m, c) == [kind |-> "item", of |-> m, name |-> c]
Module(m) == [kind |-> "namespace", of |-> m]
Meant == {meaning[n] : n \in DOMAIN meaning}

\* What a name means, or a name behind that of a module: no path is longer.
Callable ==
  {t \in Meant : t.kind = "item"} \cup
  UNION {{Command(m, c) : c \in Exports[m]} : m \in {k \in Modules : Module(k) \in Meant}}

Standard ==
  [n \in {Core} \cup Basic |-> IF n = Core THEN Module(Core) ELSE Command(Core, n)]

Prefixed(m, prefix) ==
  [n \in {prefix \o c : c \in Exports[m]} |->
     Command(m, CHOOSE c \in Exports[m] : prefix \o c = n)]

-----------------------------------------------------------------------------
Init == state = "idle" /\ meaning = <<>> /\ required = {} /\ pending = <<>>

Begin ==
  /\ state # "running" /\ Core \in Modules
  /\ state' = "running" /\ meaning' = Standard /\ required' = {Core} /\ pending' = <<>>

Fail == state' = "failed" /\ pending' = <<>> /\ UNCHANGED <<meaning, required>>

End ==
  /\ state = "running" /\ pending = <<>>
  /\ state' = "done" /\ UNCHANGED <<meaning, required, pending>>

Call(c) ==
  /\ state = "running"
  /\ pending' = Append(pending, c) /\ UNCHANGED <<state, meaning, required>>

\* The innermost call returns; its result may not fit where it stands.
Returns ==
  /\ state = "running" /\ pending # <<>>
  /\ pending' = Front(pending) /\ state' \in {"running", "failed"}

\* It was one of std::core that brings in names, all of them new or names that
\* std::core gives to every file: those a file may override, or be refused.
Brings(c, new) ==
  /\ Returns /\ Last(pending) = Command(Core, c)
  /\ DOMAIN new \cap DOMAIN meaning \subseteq Basic
  /\ meaning' = [n \in DOMAIN meaning \cup DOMAIN new |->
                   IF n \in DOMAIN new THEN new[n] ELSE meaning[n]]

Require(m) == Brings("__require", [n \in {m} |-> Module(m)]) /\ required' = required \cup {m}
\* Only commands get a second name.
Alias(as, c) == Brings("__using", [n \in {as} |-> c]) /\ UNCHANGED required
ImportAll(m, prefix) ==
  Module(m) \in Meant /\ Brings("__using_all", Prefixed(m, prefix)) /\ UNCHANGED required
Plain ==
  /\ Returns /\ Last(pending) \notin {Command(Core, c) : c \in {"__require", "__using", "__using_all"}}
  /\ UNCHANGED <<meaning, required>>

Next ==
  \/ Begin \/ Fail \/ End \/ Plain
  \/ \E c \in Callable : Call(c) \/ \E as \in Aliases : Alias(as, c)
  \/ \E m \in Modules : Require(m) \/ \E prefix \in PrefixIns : ImportAll(m, prefix)

Spec == Init /\ [][Next]_vars
=============================================================================
