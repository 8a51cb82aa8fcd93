--------------------------- MODULE CommandAccess ---------------------------
\* Who may run which command: the switches an administrator turns, the file
\* they are kept in, and the checks on the way of a command, typed by a user or
\* planned by the agent (src/platform/commands, src/platform/helper,
\* src/interfaces/http/managers/runtime/command_state.py).
\*
\* One user is modelled: users share nothing here but the switches.  Reasons
\* and times of a switch, parameters and results are left out.
EXTENDS Naturals, FiniteSetsExt

CONSTANTS
  Names,       \* what may be typed: the names and aliases of the commands
  Modules,     \* dotted paths, for which a switch of plugins may be set
  Packages,    \* module -> the modules it is or lies below
  SortRank,    \* module -> its place in sorted order
  Roles,
  Commands,
  CommandSpec, \* command -> its CommandSpec
  RoleSets,    \* what roles the user may have at one time
  Slots,       \* messages of the user handled at the same time
  MaxInputs    \* bound: switches turned, changes of roles, messages, restarts and clears

\* No name belongs to two commands (none does in this tree; the registry would
\* skip the second).
Specs == [names : SUBSET Names, module : Modules, roles : SUBSET Roles, bars : SUBSET Roles,
          mode : {"matcher", "service", "interactive", "disabled"},
          callable : BOOLEAN,   \* agent_callable
          visible : BOOLEAN,    \* helper_visible: it has a helper and with it a guard
          handler : BOOLEAN,    \* a service handler is registered
          auto : BOOLEAN]       \* the executor handles the user's message as well

ASSUME SpecsAssumption ==
  /\ CommandSpec \in [Commands -> Specs]
  /\ \A x, y \in Commands : CommandSpec[x].names \intersect CommandSpec[y].names # {} => x = y
  /\ RoleSets \subseteq SUBSET Roles
  /\ "chat" \notin Commands /\ Slots \intersect {"current", "gone"} = {}

\* The beginnings of a path, sorted, are the beginnings of each other, and among
\* any of them there is a longest.
ASSUME ModulesAssumption ==
  /\ Packages \in [Modules -> SUBSET Modules] /\ SortRank \in [Modules -> Nat]
  /\ \A m \in Modules : m \in Packages[m]
  /\ \A m \in Modules : \A k \in Packages[m] :
       Packages[k] = {j \in Packages[m] : SortRank[j] <= SortRank[k]}
  /\ \A m \in Modules : \A j, k \in Packages[m] : SortRank[j] = SortRank[k] => j = k
  /\ \A m \in Modules : \A S \in SUBSET Packages[m] :
       S # {} => \E k \in S : \A j \in S : SortRank[j] <= SortRank[k]

VARIABLES
  commands,  \* CommandAvailabilityService._commands: name -> enabled
  plugins,   \* ._plugins: module -> enabled, and the place the dictionary has it at
  disk,      \* manager_command_availability.json
  kept,      \* history: the last save went through, or this process read a whole file
  inputs,    \* of those MaxInputs bounds, how many there were
  roles,     \* the user's roles in the database
  sessions,  \* the user's chat session and one that was cleared or expired while its
             \* workflow is executed: helpers and roles of the last message of each
  inbox,     \* messages of the user that are being handled
  offered,   \* commands of the agent's plans; they outlive a restart in the checkpoint
  ran        \* the command whose handler the last step began, and for whom

accessVars == <<commands, plugins, disk, kept, inputs, roles, sessions, inbox, offered, ran>>

None == [is |-> "none"]
Torn == [is |-> "torn"]
Chat == "chat"
Owners == {"current", "gone"}
NoFile == [commands |-> << >>, plugins |-> << >>]

-----------------------------------------------------------------------------
\* Switches

CommandOn(c, n) == n \in DOMAIN c => c[n]

\* candidates[-1]: of the keys that cover the module, the one inserted last.
PluginOn(p, m) == \A k \in DOMAIN p \intersect Packages[m] :
  (\A o \in DOMAIN p \intersect Packages[m] : p[o].at <= p[k].at) => p[k].on

SetCommand(c, n, on) == [m \in DOMAIN c \union {n} |-> IF m = n THEN on ELSE c[m]]

\* Assigning to a key the dictionary has leaves the key in its place.
SetPlugin(p, m, on) ==
  LET place == IF m \in DOMAIN p THEN p[m].at ELSE 1 + Max({0} \union {p[k].at : k \in DOMAIN p})
  IN  [k \in DOMAIN p \union {m} |-> IF k = m THEN [at |-> place, on |-> on] ELSE p[k]]

\* Mutant: each switch is saved as it was set.
Saved_Own(c, p) == [commands |-> c, plugins |-> [k \in DOMAIN p |-> p[k].on]]

\* plugin_state(key) is written: what the key resolves to, not its own switch.
Saved(c, p) == [commands |-> c, plugins |-> [k \in DOMAIN p |-> PluginOn(p, k)]]

\* The file is written in sorted order and read in the order it was written; one
\* that is no JSON is taken for none.
Readable(d) == IF d = Torn THEN NoFile ELSE d
LoadedPlugins(d) == [k \in DOMAIN d.plugins |-> [at |-> SortRank[k], on |-> d.plugins[k]]]

AvailabilityCheck(c, p, x) ==
  /\ CommandSpec[x].mode # "disabled"
  /\ \A n \in CommandSpec[x].names : CommandOn(c, n)
  /\ PluginOn(p, CommandSpec[x].module)

Open == {x \in Commands : AvailabilityCheck(commands, plugins, x)}

-----------------------------------------------------------------------------
\* Roles and the policy

\* CommandPolicy.check and Helper.is_available_for agree on this.
Fits(x, R) ==
  /\ CommandSpec[x].bars \intersect R = {}
  /\ CommandSpec[x].roles = {} \/ CommandSpec[x].roles \intersect R # {}

Fitting(R) == {x \in Commands : Fits(x, R)}

Allowed(x, invoker, R) ==
  /\ x \in Open
  /\ invoker = "agent" => CommandSpec[x].callable
  /\ Fits(x, R)

\* The executor wants a service handler as well.
ExecutorRuns(x, invoker, R) == Allowed(x, invoker, R) /\ CommandSpec[x].handler

\* Helpers the user of these roles is shown, and the commands among them of
\* which the agent is told.
Shown(R) == {x \in Commands : CommandSpec[x].visible /\ Fits(x, R) /\ x \in Open}
Catalog(shown) ==
  {x \in shown : x \in Open /\ CommandSpec[x].callable /\ CommandSpec[x].mode = "service" /\ CommandSpec[x].handler}

\* A message: its command, or Chat, how far it is, the roles it was loaded with
\* and, as history, the commands that fitted the user's roles, and those that
\* were open, at some time since.
Messages == [cmd : Commands \union {Chat}, step : {"loaded", "guarded"}, roles : SUBSET Roles,
             fits : SUBSET Commands, open : SUBSET Commands]
Sessions == [shown : SUBSET Commands, roles : SUBSET Roles, fits : SUBSET Commands]
Runs == [cmd : Commands, by : Owners \union Slots]

\* Any command the agent may call can follow from a message to the agent.
Of(x) == IF x = Chat THEN {y \in Commands : CommandSpec[y].callable} ELSE {x}

\* Those under way live to see new roles and new switches.
Seen(q, fit, open) == [s \in Slots |->
  IF q[s] = None THEN None
  ELSE [q[s] EXCEPT !.fits = @ \union (fit \intersect Of(q[s].cmd)),
                    !.open = @ \union (open \intersect Of(q[s].cmd))]]

-----------------------------------------------------------------------------
Input == inputs < MaxInputs /\ inputs' = inputs + 1

AccessInit ==
  /\ commands = << >> /\ plugins = << >> /\ disk = NoFile /\ kept = TRUE /\ inputs = 0
  /\ roles \in RoleSets
  /\ sessions = [o \in Owners |-> None] /\ inbox = [s \in Slots |-> None] /\ offered = {} /\ ran = None

\* The new switches are in memory whatever becomes of the file, which is written,
\* cannot be opened, or is left half written.
Switch(c, p) ==
  /\ Input
  /\ commands' = c /\ plugins' = p
  /\ \/ disk' = Saved(c, p) /\ kept' = TRUE
     \/ disk' \in {disk, Torn} /\ kept' = FALSE
  /\ inbox' = Seen(inbox, {}, {x \in Commands : AvailabilityCheck(c, p, x)})
  /\ ran' = None
  /\ UNCHANGED <<roles, sessions, offered>>

UpdateCommandState(n, on) == Switch(SetCommand(commands, n, on), plugins)
UpdatePluginState(m, on) == Switch(commands, SetPlugin(plugins, m, on))

Restart ==
  /\ Input
  /\ commands' = Readable(disk).commands
  /\ plugins' = LoadedPlugins(Readable(disk))
  /\ kept' = (disk # Torn)
  /\ sessions' = [o \in Owners |-> None] /\ inbox' = [s \in Slots |-> None] /\ ran' = None
  /\ UNCHANGED <<disk, roles, offered>>

\* Another handler, or an administrator, gives the user other roles.
ChangeRoles ==
  /\ Input
  /\ roles' \in RoleSets \ {roles}
  /\ inbox' = Seen(inbox, Fitting(roles'), {})
  /\ sessions' = [o \in Owners |-> IF sessions[o] = None THEN None
                                  ELSE [sessions[o] EXCEPT !.fits = @ \union Fitting(roles')]]
  /\ ran' = None
  /\ UNCHANGED <<commands, plugins, disk, kept, offered>>

\* The dependencies of the matcher load the user, once for the whole message.
Receive(s, x) ==
  /\ Input
  /\ inbox[s] = None
  /\ inbox' = [inbox EXCEPT ![s] =
       [cmd |-> x, step |-> "loaded", roles |-> roles, fits |-> Fitting(roles) \intersect Of(x), open |-> Open \intersect Of(x)]]
  /\ ran' = None
  /\ UNCHANGED <<commands, plugins, disk, kept, roles, sessions, offered>>

\* The guard before the handlers of a command that has a helper.
Guard(s) ==
  LET q == inbox[s]
  IN  /\ q # None /\ q.cmd # Chat /\ q.step = "loaded"
      /\ inbox' = [inbox EXCEPT ![s] =
           IF CommandSpec[q.cmd].visible => Allowed(q.cmd, "user", q.roles) THEN [q EXCEPT !.step = "guarded"] ELSE None]
      /\ ran' = None
      /\ UNCHANGED <<commands, plugins, disk, kept, inputs, roles, sessions, offered>>

\* The recorder of the input has come between.  The matcher's own handler, or
\* the executor, which asks the policy again.
Handle(s) ==
  LET q == inbox[s]
  IN  /\ q # None /\ q.step = "guarded"
      /\ inbox' = [inbox EXCEPT ![s] = None]
      /\ ran' = IF CommandSpec[q.cmd].auto => ExecutorRuns(q.cmd, "user", q.roles)
                THEN [cmd |-> q.cmd, by |-> s] ELSE None
      /\ UNCHANGED <<commands, plugins, disk, kept, inputs, roles, sessions, offered>>

\* Mutant: a session that exists keeps its roles, only its helpers are replaced.
OpenSession_KeepsRoles(s) ==
  LET q == inbox[s]
      old == sessions.current
  IN  /\ q # None /\ q.cmd = Chat
      /\ sessions' = [sessions EXCEPT !.current =
           [shown |-> Shown(q.roles), roles |-> IF old = None THEN q.roles ELSE old.roles, fits |-> q.fits]]
      /\ inbox' = [inbox EXCEPT ![s] = None]
      /\ ran' = None
      /\ UNCHANGED <<commands, plugins, disk, kept, inputs, roles, offered>>

\* A message to the agent: its session gets the roles the message was loaded
\* with and the helpers that are shown for them now, and may plan with what the
\* catalogue holds.
OpenSession(s) ==
  LET q == inbox[s]
  IN  /\ q # None /\ q.cmd = Chat
      /\ sessions' = [sessions EXCEPT !.current = [shown |-> Shown(q.roles), roles |-> q.roles, fits |-> q.fits]]
      /\ inbox' = [inbox EXCEPT ![s] = None]
      /\ ran' = None
      /\ UNCHANGED <<commands, plugins, disk, kept, inputs, roles, offered>>

OfferCommand ==
  /\ sessions.current # None
  /\ \E x \in Catalog(sessions.current.shown) : offered' = offered \union {x}
  /\ ran' = None
  /\ UNCHANGED <<commands, plugins, disk, kept, inputs, roles, sessions, inbox>>

\* The user clears the session, or it has been idle for too long: whoever executes
\* a workflow goes on with the object.
Clear ==
  /\ Input
  /\ sessions.current # None
  /\ sessions' = [current |-> None, gone |-> sessions.current]
  /\ ran' = None
  /\ UNCHANGED <<commands, plugins, disk, kept, roles, inbox, offered>>

\* dispatch_auto_task reads the session's roles when it is called, in the middle
\* of a workflow or after a restart, and the executor asks the policy.
Dispatch(o, x) ==
  /\ x \in offered /\ sessions[o] # None
  /\ ran' = IF ExecutorRuns(x, "agent", sessions[o].roles) THEN [cmd |-> x, by |-> o] ELSE None
  /\ UNCHANGED <<commands, plugins, disk, kept, inputs, roles, sessions, inbox, offered>>

AccessNext ==
  \/ \E n \in Names, on \in BOOLEAN : UpdateCommandState(n, on)
  \/ \E m \in Modules, on \in BOOLEAN : UpdatePluginState(m, on)
  \/ Restart
  \/ ChangeRoles
  \/ \E s \in Slots : (\E x \in Commands \union {Chat} : Receive(s, x)) \/ Guard(s) \/ Handle(s) \/ OpenSession(s)
  \/ OfferCommand
  \/ Clear
  \/ \E o \in Owners, x \in Commands : Dispatch(o, x)

System == AccessInit /\ [][AccessNext]_accessVars

-----------------------------------------------------------------------------
\* The shape of the state.
TypeOK ==
  /\ DOMAIN commands \subseteq Names /\ \A n \in DOMAIN commands : commands[n] \in BOOLEAN
  /\ DOMAIN plugins \subseteq Modules /\ \A m \in DOMAIN plugins : plugins[m] \in [at : Nat, on : BOOLEAN]
  /\ kept \in BOOLEAN /\ inputs \in 0..MaxInputs
  /\ roles \in RoleSets
  /\ sessions \in [Owners -> Sessions \union {None}]
  /\ inbox \in [Slots -> Messages \union {None}]
  /\ offered \subseteq Commands
  /\ ran \in Runs \union {None}

\* After a save that went through a restart changes no decision: every module is
\* as enabled as it was, although the file keeps neither the order in which the
\* switches were first set nor what each was set to, and the last key decides
\* before the restart, the longest after it.
RestartKeepsDecisions == kept =>
  /\ disk # Torn
  /\ disk.commands = commands
  /\ \A m \in Modules : PluginOn(LoadedPlugins(disk), m) <=> PluginOn(plugins, m)

\* A handler begins only for whom it may: for the agent while the command is
\* open and if it fitted the user's roles at some time since the message that
\* opened the session anew was received; for a user's message, if the command
\* shows a helper, when it was open and fitted at some time since.  Roles and
\* switches change, sessions are replaced and plans are resumed meanwhile.
EntitledRuns == [][
  \A x \in Commands :
    /\ \A o \in Owners : ran' = [cmd |-> x, by |-> o] /\ ran' # ran =>
         x \in Open /\ CommandSpec[x].callable /\ x \in sessions[o].fits
    /\ \A s \in Slots : ran' = [cmd |-> x, by |-> s] /\ ran' # ran /\ CommandSpec[x].visible =>
         x \in inbox[s].fits \intersect inbox[s].open]_accessVars

=============================================================================
