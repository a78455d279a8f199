----------------------------- MODULE BrokerAgent -----------------------------
(* The broker of a Harness as a LaunchAgent of macOS: the commands that       *)
(* install, stop and remove it, the agent of a release before the rename, and *)
(* the descriptor by which a broker says that it serves.                      *)
(*   crates/platform/src/macos_native_harness_broker.rs,                      *)
(*   crates/shim/src/broker_cli.rs, packages/harness-broker/src/server.ts     *)
(* A bootout returns when the broker has ended. launchd starts a broker when  *)
(* its agent is loaded and not again when it exits: the property list asks    *)
(* for RunAtLoad and not for KeepAlive. Ownership and modes of files and      *)
(* directories are as the commands want them.                                 *)

CONSTANTS
  Definitions,    \* what a property list may start: program, arguments, environment
  Brokers,        \* processes of the broker; one that nothing refers to is used again
  Callers,        \* who may run a command, one at a time each
  MeetsStarting,  \* whether a command may begin while a broker is still starting
  NoAgent

ASSUME AgentConstants ==
  /\ NoAgent \notin Definitions \union Brokers
  /\ MeetsStarting \in BOOLEAN

VARIABLES
  plist,       \* the property list of the agent
  agent,       \* what launchd has loaded, the broker it runs, whether that serves
  old,         \* the agent of before the rename: its property list, and in launchd
  descriptor,  \* the broker that wrote the descriptor there is
  call         \* per command: where it is and what it has read

agentVars == <<plist, agent, old, descriptor, call>>

Launchd ==
  [loaded : Definitions \union {NoAgent}, broker : Brokers \union {NoAgent}, serves : BOOLEAN]
NotLoaded == [loaded |-> NoAgent, broker |-> NoAgent, serves |-> FALSE]
Observations == {"not loaded", "stopped", "running"}
Ends == {"idle", "reported", "failed"}
CallOf(kind, build, at) ==
  [at |-> at, kind |-> kind, build |-> build, found |-> NoAgent,
   observed |-> "not loaded", before |-> NoAgent]
NoCommand == CallOf("stop", NoAgent, "idle")
BrokerPlaces == Ends \union {"old agent", "old file", "plist", "observe", "fingerprint", "bootout",
                        "write", "bootstrap", "kickstart", "wait", "remove"}
CommandState ==
  [at : BrokerPlaces,
   kind : {"install", "stop", "uninstall"}, build : Definitions \union {NoAgent},
   found : Definitions \union {NoAgent}, observed : Observations, before : Brokers \union {NoAgent}]

AgentTypeOK ==
  /\ plist \in Definitions \union {NoAgent} /\ agent \in Launchd
  /\ old \in [file : BOOLEAN, loaded : BOOLEAN]
  /\ descriptor \in Brokers \union {NoAgent}
  /\ call \in [Callers -> CommandState]

InitAgent ==
  /\ plist = NoAgent /\ descriptor = NoAgent
  /\ agent = NotLoaded
  /\ old \in {o \in [file : BOOLEAN, loaded : BOOLEAN] : o.loaded => o.file}
  /\ call = [c \in Callers |-> NoCommand]

(***************************************************************************)
(* launchd and the brokers it runs                                         *)
(***************************************************************************)
FreeBrokers == Brokers \ ({agent.broker, descriptor} \union {call[c].before : c \in Callers})

\* launchd loads definition d and starts the broker of it.
Starts(d) ==
  \E p \in FreeBrokers : agent' = [loaded |-> d, broker |-> p, serves |-> FALSE]

\* The broker launchd runs, if any, ends. One that serves closes its server and
\* removes its descriptor, unless it is killed.
BrokerGoes == descriptor' \in {descriptor} \union IF agent.serves THEN {NoAgent} ELSE {}

\* startHarnessBrokerServer: no descriptor has a live owner, since launchd runs one
\* broker of an agent; the new descriptor takes the place of one left behind.
PublishesDescriptor ==
  /\ agent.broker # NoAgent /\ ~agent.serves
  /\ agent' = [agent EXCEPT !.serves = TRUE] /\ descriptor' = agent.broker
  /\ UNCHANGED <<plist, old, call>>

\* A broker exits: it fails to start, it crashes, or somebody ends it.
BrokerExits ==
  /\ agent.broker # NoAgent
  /\ agent' = [agent EXCEPT !.broker = NoAgent, !.serves = FALSE] /\ BrokerGoes
  /\ UNCHANGED <<plist, old, call>>

\* The user logs out, which ends agents and commands, and in again: launchd loads
\* the agents whose property lists are there.
LogsIn ==
  /\ BrokerGoes
  /\ IF plist = NoAgent
       THEN agent' = NotLoaded
       ELSE Starts(plist)
  /\ old' = [old EXCEPT !.loaded = old.file]
  /\ call' = [c \in Callers |-> NoCommand]
  /\ UNCHANGED plist

Goes(c, step) == call' = [call EXCEPT ![c].at = step]

(***************************************************************************)
(* The commands                                                            *)
(***************************************************************************)
BrokerStarts == agent.broker # NoAgent /\ ~agent.serves

\* run_broker_cli
CallBegins(c) ==
  /\ call[c].at \in Ends /\ (BrokerStarts => MeetsStarting)
  /\ \E kind \in {"install", "stop", "uninstall"}, build \in Definitions \union {NoAgent} :
       /\ build = NoAgent <=> kind # "install"
       /\ call' = [call EXCEPT
                     ![c] = CallOf(kind, build, IF kind = "stop" THEN "observe" ELSE "old agent")]
  /\ UNCHANGED <<plist, agent, old, descriptor>>

\* A command is killed, or fails for a reason of its own.
CallDies(c) ==
  /\ call[c].at \notin Ends
  /\ Goes(c, "failed") /\ UNCHANGED <<plist, agent, old, descriptor>>

\* remove_legacy_launch_agent: the agent, then its property list
BootsOutOld(c) ==
  /\ call[c].at = "old agent"
  /\ old' = [old EXCEPT !.loaded = FALSE] /\ Goes(c, "old file")
  /\ UNCHANGED <<plist, agent, descriptor>>

RemovesOld(c) ==
  /\ call[c].at = "old file"
  /\ old' = [old EXCEPT !.file = FALSE]
  /\ Goes(c, IF call[c].kind = "install" THEN "plist" ELSE "observe")
  /\ UNCHANGED <<plist, agent, descriptor>>

\* plist_matches; what it found is compared with the plan when the steps are chosen.
ReadsPlist(c) ==
  /\ call[c].at = "plist"
  /\ call' = [call EXCEPT ![c].at = "observe", ![c].found = plist]
  /\ UNCHANGED <<plist, agent, old, descriptor>>

Observed == IF agent.loaded = NoAgent THEN "not loaded"
            ELSE IF agent.broker = NoAgent THEN "stopped" ELSE "running"

\* What follows a bootout in each of the three commands
AfterBootout(kind) == CASE kind = "install" -> "write"
                        [] kind = "uninstall" -> "remove"
                        [] OTHER -> "reported"

\* observed_launchctl_state; a stop ends when nothing is loaded, an uninstall goes on
\* to the property list.
AfterLook(kind) == CASE kind = "install" -> "fingerprint"
                     [] kind # "install" /\ Observed # "not loaded" -> "bootout"
                     [] OTHER -> AfterBootout(kind)

Observes(c) ==
  /\ call[c].at = "observe"
  /\ call' = [call EXCEPT ![c].observed = Observed, ![c].at = AfterLook(call[c].kind)]
  /\ UNCHANGED <<plist, agent, old, descriptor>>

\* plan_native_harness_broker_install: where the command enters the row of bootout,
\* write and bootstrap; a property list that is in place and loaded needs none of them.
FirstStep(matches, observed) ==
  CASE matches /\ observed # "not loaded" -> "kickstart"
    [] matches /\ observed = "not loaded" -> "bootstrap"
    [] ~matches /\ observed = "not loaded" -> "write"
    [] OTHER -> "bootout"

\* descriptor_fingerprint, and the plan made of the three readings
TakesFingerprint(c) ==
  /\ call[c].at = "fingerprint"
  /\ call' = [call EXCEPT
       ![c].at = FirstStep(call[c].found = call[c].build, call[c].observed),
       ![c].before = descriptor]
  /\ UNCHANGED <<plist, agent, old, descriptor>>

\* launchctl bootout; it fails when the agent is not loaded.
Bootout(c) ==
  /\ call[c].at = "bootout"
  /\ IF agent.loaded = NoAgent
       THEN Goes(c, "failed") /\ UNCHANGED <<agent, descriptor>>
       ELSE /\ agent' = NotLoaded
            /\ BrokerGoes /\ Goes(c, AfterBootout(call[c].kind))
  /\ UNCHANGED <<plist, old>>

\* atomic_write_plist
WritesPlist(c) ==
  /\ call[c].at = "write"
  /\ plist' = call[c].build /\ Goes(c, "bootstrap") /\ UNCHANGED <<agent, old, descriptor>>

\* launchctl bootstrap; it fails without a property list and when the agent is loaded.
Bootstrap(c) ==
  /\ call[c].at = "bootstrap"
  /\ IF plist = NoAgent \/ agent.loaded # NoAgent
       THEN Goes(c, "failed") /\ UNCHANGED agent
       ELSE Starts(plist) /\ Goes(c, "wait")
  /\ UNCHANGED <<plist, old, descriptor>>

\* launchctl kickstart -k: the broker that runs is killed, and another is started of
\* the definition that is loaded.
Kickstart(c) ==
  /\ call[c].at = "kickstart"
  /\ IF plist = NoAgent \/ agent.loaded = NoAgent
       THEN Goes(c, "failed") /\ UNCHANGED <<agent, descriptor>>
       ELSE BrokerGoes /\ Starts(agent.loaded) /\ Goes(c, "wait")
  /\ UNCHANGED <<plist, old>>

\* As it would be without the comparison with the fingerprint taken before
ReadyWithAny(c) == Observed = "running" /\ descriptor # NoAgent

\* wait_for_ready: the agent runs, and there is a descriptor that was not there before.
Ready(c) == Observed = "running" /\ descriptor \notin {NoAgent, call[c].before}

SeesReady(c) ==
  /\ call[c].at = "wait" /\ Ready(c)
  /\ Goes(c, "reported") /\ UNCHANGED <<plist, agent, old, descriptor>>

\* The last part of uninstall_native_harness_broker
RemovesPlist(c) ==
  /\ call[c].at = "remove"
  /\ plist' = NoAgent /\ Goes(c, "reported") /\ UNCHANGED <<agent, old, descriptor>>

CommandStep(c) ==
  \/ CallBegins(c) \/ CallDies(c)
  \/ BootsOutOld(c) \/ RemovesOld(c) \/ ReadsPlist(c) \/ Observes(c) \/ TakesFingerprint(c)
  \/ Bootout(c) \/ WritesPlist(c) \/ Bootstrap(c) \/ Kickstart(c)
  \/ SeesReady(c) \/ RemovesPlist(c)

NextAgent ==
  \/ PublishesDescriptor \/ BrokerExits \/ LogsIn
  \/ \E c \in Callers : CommandStep(c)

AgentSpec == InitAgent /\ [][NextAgent]_agentVars

(***************************************************************************)
(* Properties                                                              *)
(***************************************************************************)
\* An install that reports success reports on the broker that runs: it is of the build
\* the command was to install, the descriptor is its own and not one of the broker it
\* replaced, and no broker of before the rename is there beside it. It does not hold
\* for commands that overlap: one writes its property list while the agent of the
\* other is loaded, fails, and from then on every install finds its list in place and
\* restarts the other build. Nor does it hold for a command that meets a broker that
\* is still starting, which may write its descriptor before it is replaced.
InstallReportsItsBroker ==
  [][\A c \in Callers :
       call[c].kind = "install" /\ call[c].at = "wait" /\ call'[c].at = "reported"
         => /\ agent.loaded = call[c].build /\ agent.broker # NoAgent
            /\ descriptor = agent.broker
            /\ ~old.loaded]_agentVars

\* Two brokers never compete for one Harness: an agent of before the rename is not
\* loaded beside the one that took its place, nor will be at the next login.
OneBroker == old.loaded \/ old.file => agent.loaded = NoAgent /\ plist = NoAgent

\* What launchd runs is what the property list says, whichever command was killed when.
LoadedAsWritten == agent.loaded \in {NoAgent, plist}
=============================================================================
