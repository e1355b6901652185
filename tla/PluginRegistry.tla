--------------------------- MODULE PluginRegistry ---------------------------
(***************************************************************************)
(* PluginRegistry of vina/plugins/registry.py: plugins are registered,     *)
(* enabled, disabled and unregistered, and run_hook calls the handlers of  *)
(* a hook point.  run_hook and the handlers are synchronous, so during a   *)
(* dispatch nobody but the handlers touches the registry; they may do      *)
(* anything to it.  A handler that runs a hook itself is not represented.  *)
(*                                                                         *)
(* The capability lists (scanners, rules, report sections, ...) and the    *)
(* flag a plugin object keeps for display are left out: a dispatch reads   *)
(* neither.                                                                *)
(***************************************************************************)
EXTENDS Naturals, Sequences

CONSTANTS
  Plugin,     \* plugin ids
  HookPoint,  \* the hook points that may have handlers
  HooksOf,    \* what register_hooks of each plugin returns, in order
  MaxOps      \* bound: operations on the registry

(* The plugin_id of a handler that was added without a plugin.             *)
Anonymous == ""

ASSUME RegistryAssumption ==
  /\ Anonymous \notin Plugin
  /\ HooksOf \in [Plugin -> Seq([point : HookPoint, priority : Nat])]
  /\ MaxOps \in Nat

VARIABLES
  status,  \* _plugins and _enabled, which have the same keys
  hooks,   \* _hooks: a set of registrations; see Precedes for their order
  left,    \* history: for each plugin, ops when it was last unregistered
  ops,     \* operations so far
  event    \* the HookEvent and the loop of run_hook, with history

registryVars == <<status, hooks, left, ops, event>>

Registration == [plugin : Plugin \cup {Anonymous}, point : HookPoint,
                 priority : Nat, batch : Nat, index : Nat]

(* A list of _hooks is appended to and sorted by priority at once; as the  *)
(* sort is stable, it is in the order of priority, then of registration.   *)
Precedes(r, q) ==
  \/ r.priority < q.priority
  \/ r.priority = q.priority /\ r.batch < q.batch
  \/ r.priority = q.priority /\ r.batch = q.batch /\ r.index < q.index

Nobody == [none |-> TRUE]

(* No dispatch; and the start of one, over a copy of the list.             *)
NoEvent == [active |-> FALSE, pending |-> {}, running |-> Nobody,
            cancelled |-> FALSE,
            snapshot |-> {},   \* history: the handlers it started with,
            called |-> {},     \* those it called,
            quiet |-> {},      \* plugins disabled at some moment of it,
            gone |-> {}]       \* and plugins unregistered during it

Disabled(s) == {p \in Plugin : s[p] = "disabled"}

Fired(point) ==
  LET registrations == {r \in hooks : r.point = point}
  IN [NoEvent EXCEPT !.active = TRUE, !.pending = registrations,
                     !.snapshot = registrations, !.quiet = Disabled(status)]

RegistryInit ==
  /\ status = [p \in Plugin |-> "absent"]
  /\ hooks = {}
  /\ left = [p \in Plugin |-> 0]
  /\ ops = 0
  /\ event = NoEvent

-----------------------------------------------------------------------------
(* Operations.                                                             *)

NewHooks(p, n) ==
  {[plugin |-> p, point |-> HooksOf[p][i].point,
    priority |-> HooksOf[p][i].priority, batch |-> ops, index |-> i] : i \in 1 .. n}

(* The plugin is entered and enabled first.  A registration that raises    *)
(* has added the first n of its hooks; one that does not has added all.    *)
Register(p, n) ==
  /\ n \in 0 .. Len(HooksOf[p])
  /\ status' = [status EXCEPT ![p] = "enabled"]
  /\ hooks' = hooks \cup NewHooks(p, n)
  /\ UNCHANGED left

UnregisterKeepingHooks(p) ==    \* mutant
  /\ status[p] # "absent"
  /\ status' = [status EXCEPT ![p] = "absent"]
  /\ left' = [left EXCEPT ![p] = ops + 1]
  /\ UNCHANGED hooks

Unregister(p) ==
  /\ status[p] # "absent"
  /\ status' = [status EXCEPT ![p] = "absent"]
  /\ hooks' = {r \in hooks : r.plugin # p}
  /\ left' = [left EXCEPT ![p] = ops + 1]

Enable(p) ==
  /\ status[p] # "absent"
  /\ status' = [status EXCEPT ![p] = "enabled"]
  /\ UNCHANGED <<hooks, left>>

Disable(p) ==
  /\ status[p] # "absent"
  /\ status' = [status EXCEPT ![p] = "disabled"]
  /\ UNCHANGED <<hooks, left>>

RemoveHooks(point) ==
  /\ hooks' = {r \in hooks : r.point # point}
  /\ UNCHANGED <<status, left>>

(* In the name of any plugin, registered or not, or of none.               *)
AddHook(point, priority, id) ==
  /\ hooks' = hooks \cup {[plugin |-> id, point |-> point, priority |-> priority,
                           batch |-> ops, index |-> 1]}
  /\ UNCHANGED <<status, left>>

(* One operation, by whoever runs; a dispatch under way goes on with its   *)
(* copy.                                                                   *)
RegistryOp ==
  /\ ops < MaxOps
  /\ ops' = ops + 1
  /\ \/ \E p \in Plugin :
          \/ \E n \in 0 .. Len(HooksOf[p]) : Register(p, n)
          \/ Unregister(p) \/ Enable(p) \/ Disable(p)
     \/ \E point \in HookPoint :
          RemoveHooks(point) \/ \E id \in Plugin \cup {Anonymous} : AddHook(point, 0, id)
  /\ event' = IF event.active
              THEN [event EXCEPT
                      !.quiet = @ \cup Disabled(status'),
                      !.gone = @ \cup {p \in Plugin : status[p] # "absent"
                                                      /\ status'[p] = "absent"}]
              ELSE event

-----------------------------------------------------------------------------
(* The loop of run_hook.                                                   *)

Looping == event.active /\ event.running = Nobody /\ ~event.cancelled

IsNext(r) ==
  /\ r \in event.pending
  /\ \A q \in event.pending : q = r \/ Precedes(r, q)

(* _enabled.get(pid, True): who is not registered is not disabled.         *)
IsOff(r) == r.plugin \in Plugin /\ status[r.plugin] = "disabled"

SkipDisabled ==
  /\ Looping
  /\ \E r \in event.pending :
       /\ IsNext(r) /\ IsOff(r)
       /\ event' = [event EXCEPT !.pending = @ \ {r}]
  /\ UNCHANGED <<status, hooks, left, ops>>

CallHandler ==
  /\ Looping
  /\ \E r \in event.pending :
       /\ IsNext(r) /\ ~IsOff(r)
       /\ event' = [event EXCEPT !.pending = @ \ {r}, !.running = r,
                                 !.called = @ \cup {r}]
  /\ UNCHANGED <<status, hooks, left, ops>>

(* The handler returns, perhaps having set event.cancelled.                *)
HandlerReturns(cancels) ==
  /\ event.running # Nobody
  /\ event' = [event EXCEPT !.running = Nobody, !.cancelled = cancels]
  /\ UNCHANGED <<status, hooks, left, ops>>

HandlerRaisesThrough(cancels) ==    \* mutant: the exception ends the loop
  /\ event.running # Nobody
  /\ event' = [event EXCEPT !.running = Nobody, !.cancelled = cancels, !.pending = {}]
  /\ UNCHANGED <<status, hooks, left, ops>>

(* The handler raises: the exception is logged and kept in event.errors.   *)
HandlerRaises(cancels) ==
  /\ event.running # Nobody
  /\ event' = [event EXCEPT !.running = Nobody, !.cancelled = cancels]
  /\ UNCHANGED <<status, hooks, left, ops>>

DispatchedToTheEnd ==    \* mutant: a cancelled dispatch is not left
  event.active /\ event.running = Nobody /\ event.pending = {}

Dispatched == event.active /\ event.running = Nobody
              /\ (event.cancelled \/ event.pending = {})

-----------------------------------------------------------------------------
RegistryTypeOK ==
  /\ status \in [Plugin -> {"absent", "enabled", "disabled"}]
  /\ hooks \in SUBSET Registration
  /\ left \in [Plugin -> Nat]
  /\ ops \in 0 .. MaxOps
  /\ event \in [active : BOOLEAN, pending : SUBSET Registration,
                running : Registration \cup {Nobody}, cancelled : BOOLEAN,
                snapshot : SUBSET Registration, called : SUBSET Registration,
                quiet : SUBSET Plugin, gone : SUBSET Plugin]

(* A handler that raises, cancels nothing and whatever it does to the      *)
(* registry takes no other handler's turn: when a dispatch has ended       *)
(* without being cancelled, every handler registered when it began was     *)
(* called, except those of plugins disabled at some moment of it.          *)
EveryHandlerServed ==
  Dispatched /\ ~event.cancelled =>
    \A r \in event.snapshot : r \in event.called \/ r.plugin \in event.quiet

(* unregister takes every handler along that was registered in the name of *)
(* the plugin, by its registration, in part or twice, or by add_hook before *)
(* or after it: a later dispatch calls none of them, though add_hook may   *)
(* have named the plugin again since. Nor is one of a disabled plugin      *)
(* called. The dispatch a handler unregisters in goes on with its copy.    *)
NoStrayHandlers ==
  [][\A r \in event'.called \ event.called : r.plugin \in Plugin =>
       /\ status[r.plugin] # "disabled"
       /\ r.batch >= left[r.plugin] \/ r.plugin \in event.gone]_registryVars
=============================================================================
