---------------------------- MODULE DesktopTools ----------------------------
(***************************************************************************)
(* The official MCP servers of Desktop (codex_app, cua_repl) as the tools of *)
(* one Claude Session: packages/host-runtime/src/official-desktop-tools.ts   *)
(* (the provider), the client of them each CLI process of the Session is     *)
(* started with (adapters/claude-code/src/client-tools.ts,                   *)
(* sdk-transport.ts), and the socket between the two when a Harness broker   *)
(* runs the Session (harness-broker/src/client-tools.ts).                    *)
(*                                                                           *)
(* A call of cua_repl gives its Turn control of the Desktop until turn_ended *)
(* is sent for the Turn or the connection closes.  The feature switches are  *)
(* on; the time limit of a listing (60 s) and of a call (1 h) is not         *)
(* modelled.                                                                 *)
(***************************************************************************)
EXTENDS Naturals, FiniteSets

CONSTANTS
  ToolUses,   \* the calls Claude makes
  MaxOwners   \* bound: Turns of the Session

ASSUME ToolsAssumption == MaxOwners \in Nat /\ IsFiniteSet(ToolUses)

VARIABLES
  brokered,  \* whether a broker runs the Session
  handle,    \* what the transports were given: closed by the first transport that closes
  provider,  \* OfficialDesktopToolSession.#closed
  catalog,   \* #catalog, and who loads it: without a catalogue there is no context either
  cuaTurn,   \* #cuaTurn; 0 is undefined
  control,   \* the Turn that controls the Desktop on the connection; 0 is none
  ending,    \* the cleanups of turnEnded
  use,       \* the calls
  owner,     \* the active Turn of the Thread; 0 is none
  owners,    \* Turns begun
  cliTransport,    \* the transport
  listed,    \* what the transport was told of the tools
  offered    \* history: a transport of the Session was told of tools

toolVars == <<brokered, handle, provider, catalog, cuaTurn, control, ending, use,
              owner, owners, cliTransport, listed, offered>>

NoUse == [at |-> "new", turn |-> 0, cua |-> FALSE, cut |-> "no"]

ToolsTypeOK ==
  /\ brokered \in BOOLEAN /\ offered \in BOOLEAN
  /\ handle \in {"open", "closed"} /\ provider \in {"open", "closed"}
  /\ catalog \in {"none", "listing", "calling", "loaded", "rejected"}
  /\ {cuaTurn, control, owner, owners} \subseteq 0 .. MaxOwners
  /\ ending \subseteq [turn : 1 .. MaxOwners, event : {"Stop", "Interrupt"},
                       step : {"turn_ended", "js_reset"}, resets : BOOLEAN]
  /\ use \in [ToolUses -> [at : {"new", "loads", "sent", "done"}, turn : 0 .. MaxOwners,
                           cua : BOOLEAN, cut : {"no", "asked", "told"}]]
  /\ cliTransport \in {"none", "starting", "open", "closed"}
  /\ listed \in {"none", "tools", "failed", "empty", "refused"}

InitTools ==
  /\ brokered \in BOOLEAN /\ handle = "open" /\ provider = "open"
  /\ catalog = "none" /\ cuaTurn = 0 /\ control = 0 /\ ending = {}
  /\ use = [c \in ToolUses |-> NoUse]
  /\ owner = 0 /\ owners = 0 /\ cliTransport = "none" /\ listed = "none" /\ offered = FALSE

(***************************************************************************)
(* The provider                                                            *)
(***************************************************************************)
\* #reset: the calls under way fail, and with the connection the native side ends the
\* control it gave. A cleanup that waits fails as well.
SettledCalls(sites) == [c \in ToolUses |-> IF use[c].at \in sites THEN [use[c] EXCEPT !.at = "done"] ELSE use[c]]
Resets ==
  /\ catalog' = "none" /\ cuaTurn' = 0 /\ control' = 0 /\ ending' = {}

\* turnEnded: the end of a Turn that used cua_repl is told once.
Cleans(t, event, resets) ==
  /\ cuaTurn' = 0 /\ control' = 0
  /\ ending' = ending \union
       {[turn |-> t, event |-> event, step |-> "turn_ended", resets |-> resets]}

\* As it would be if the Turn were not looked at again after the wait
OwnedWhenMade(c) == use[c].cut # "told"

\* What a call checks when the catalogue is there
Owns(c) == use[c].cut # "told" /\ use[c].turn = owner

\* The catalogue has loaded: the calls that waited for it go on, one after the other. No
\* other Turn has control then (ControlEndsWithTurn), whose end a call would tell first.
GoesOn(c) == use[c].at = "loads" /\ Owns(c)
TakesControl(calls) ==
  IF \E c \in calls : use[c].cua
    THEN \E c \in calls : use[c].cua /\ cuaTurn' = use[c].turn /\ control' = use[c].turn
    ELSE UNCHANGED <<cuaTurn, control>>

LoadSucceeds ==
  /\ catalog \in {"listing", "calling"} /\ catalog' = "loaded"
  /\ use' = [c \in ToolUses |-> IF GoesOn(c) THEN [use[c] EXCEPT !.at = "sent"]
                                ELSE SettledCalls({"loads"})[c]]
  /\ TakesControl({c \in ToolUses : GoesOn(c)})
  /\ IF cliTransport = "starting"
       THEN cliTransport' = "open" /\ listed' = "tools" /\ offered' = TRUE
       ELSE UNCHANGED <<cliTransport, listed, offered>>
  /\ UNCHANGED <<brokered, handle, provider, ending, owner, owners>>

\* A listing that fails is empty and leaves the next one to try again; the failure of a
\* load that a call began stays.
LoadFails ==
  /\ catalog \in {"listing", "calling"}
  /\ use' = SettledCalls({"loads"})
  /\ IF catalog = "listing"
       THEN Resets /\ cliTransport' = "open" /\ listed' = "failed"
       ELSE catalog' = "rejected" /\ UNCHANGED <<cuaTurn, control, ending, cliTransport, listed>>
  /\ UNCHANGED <<brokered, handle, provider, owner, owners, offered>>

\* Claude calls a tool it was told of.
BeginsCall(c) ==
  /\ cliTransport = "open" /\ listed = "tools" /\ handle = "open" /\ owner # 0 /\ use[c].at = "new"
  /\ \E cua \in BOOLEAN :
       LET made(site) == [at |-> site, turn |-> owner, cua |-> cua, cut |-> "no"]
       IN  \/ /\ catalog = "loaded"
              /\ use' = [use EXCEPT ![c] = made("sent")]
              /\ IF cua THEN cuaTurn' = owner /\ control' = owner
                        ELSE UNCHANGED <<cuaTurn, control>>
              /\ UNCHANGED catalog
           \/ /\ catalog \in {"none", "calling"}
              /\ use' = [use EXCEPT ![c] = made("loads")] /\ catalog' = "calling"
              /\ UNCHANGED <<cuaTurn, control>>
           \/ /\ catalog = "rejected"
              /\ use' = [use EXCEPT ![c] = made("done")]
              /\ UNCHANGED <<catalog, cuaTurn, control>>
  /\ UNCHANGED <<brokered, handle, provider, ending, owner, owners, cliTransport, listed, offered>>

CallAnswered(c) ==
  /\ use[c].at = "sent" /\ use' = [use EXCEPT ![c].at = "done"]
  /\ UNCHANGED <<brokered, handle, provider, catalog, cuaTurn, control, ending,
                 owner, owners, cliTransport, listed, offered>>

\* An answer that is an error resets the connection, under the other calls as well.
CallFails(c) ==
  /\ use[c].at = "sent"
  /\ use' = SettledCalls({"sent"}) /\ Resets
  /\ UNCHANGED <<brokered, handle, provider, owner, owners, cliTransport, listed, offered>>

\* The signal of a call that was sent aborts: control is released before the connection
\* closes.
Aborts(c) ==
  IF use[c].cua /\ cuaTurn = use[c].turn
    THEN /\ Cleans(cuaTurn, "Interrupt", TRUE)
         /\ use' = [use EXCEPT ![c].cut = "told"] /\ UNCHANGED catalog
    ELSE Resets /\ use' = SettledCalls({"sent"})

\* Claude gives a call up. Over the socket the provider learns of it later.
CallCancelled(c) ==
  /\ cliTransport = "open" /\ use[c].at \in {"loads", "sent"} /\ use[c].cut = "no"
  /\ IF ~brokered /\ use[c].at = "sent" THEN Aborts(c)
     ELSE /\ use' = [use EXCEPT ![c].cut = IF brokered THEN "asked" ELSE "told"]
          /\ UNCHANGED <<catalog, cuaTurn, control, ending>>
  /\ UNCHANGED <<brokered, handle, provider, owner, owners, cliTransport, listed, offered>>

CancelArrives(c) ==
  /\ use[c].cut = "asked" /\ use[c].at \in {"loads", "sent"}
  /\ IF use[c].at = "sent" THEN Aborts(c)
     ELSE use' = [use EXCEPT ![c].cut = "told"] /\ UNCHANGED <<catalog, cuaTurn, control, ending>>
  /\ UNCHANGED <<brokered, handle, provider, owner, owners, cliTransport, listed, offered>>

\* turn_ended, or the js_reset that follows that of an interrupted Turn, is answered or
\* refused. What an abort began ends in #reset, after 5 s in any case.
CleanupProceeds(e) ==
  /\ \/ /\ e.step = "turn_ended" /\ e.event = "Interrupt"
        /\ ending' = (ending \ {e}) \union {[e EXCEPT !.step = "js_reset"]}
        /\ UNCHANGED <<catalog, cuaTurn, control, use>>
     \/ ~e.resets /\ ending' = ending \ {e} /\ UNCHANGED <<catalog, cuaTurn, control, use>>
     \/ e.resets /\ Resets /\ use' = SettledCalls({"sent"})
  /\ UNCHANGED <<brokered, handle, provider, owner, owners, cliTransport, listed, offered>>

(***************************************************************************)
(* Turns and transports                                                    *)
(***************************************************************************)
\* A Turn begins, with a transport if there is none. What a former transport closed
\* stays closed: the provider of this process lists no tools, and that of the socket
\* refuses to list, which fails the start.
TurnBegins ==
  /\ owner = 0 /\ owners < MaxOwners /\ cliTransport \in {"none", "open"}
  /\ owners' = owners + 1
  /\ \/ cliTransport = "open" /\ owner' = owners' /\ UNCHANGED <<cliTransport, catalog, listed>>
     \/ /\ cliTransport = "none" /\ handle = "open"
        /\ owner' = owners' /\ cliTransport' = "starting" /\ catalog' = "listing" /\ UNCHANGED listed
     \/ /\ cliTransport = "none" /\ handle = "closed" /\ ~brokered
        /\ owner' = owners' /\ cliTransport' = "open" /\ listed' = "empty" /\ UNCHANGED catalog
     \/ /\ cliTransport = "none" /\ handle = "closed" /\ brokered
        /\ listed' = "refused" /\ UNCHANGED <<owner, cliTransport, catalog>>
  /\ UNCHANGED <<brokered, handle, provider, cuaTurn, control, ending, use, offered>>

TurnEnds ==
  /\ owner # 0 /\ cliTransport \in {"open", "none"} /\ owner' = 0
  /\ IF cuaTurn = owner
       THEN \E event \in {"Stop", "Interrupt"} : Cleans(owner, event, FALSE)
       ELSE UNCHANGED <<cuaTurn, control, ending>>
  /\ UNCHANGED <<brokered, handle, provider, catalog, use, owners, cliTransport, listed, offered>>

\* The Claude Session gives up waiting for a cancelled Turn and closes its transport; the
\* Turn ends after that, and the Session stays open.
ClosesTransport ==
  /\ owner # 0 /\ cliTransport = "open" /\ cliTransport' = "none" /\ handle' = "closed"
  /\ \/ ~brokered /\ provider' = "closed" /\ Resets /\ use' = SettledCalls({"loads", "sent"})
     \/ /\ brokered
        /\ use' = [c \in ToolUses |->
                     IF use[c].at \in {"loads", "sent"} /\ use[c].cut = "no"
                       THEN [use[c] EXCEPT !.cut = "asked"] ELSE use[c]]
        /\ UNCHANGED <<provider, catalog, cuaTurn, control, ending>>
  /\ UNCHANGED <<brokered, owner, owners, listed, offered>>

SessionCloses ==
  /\ cliTransport \in {"none", "open"} /\ cliTransport' = "closed"
  /\ handle' = "closed" /\ provider' = "closed" /\ owner' = 0
  /\ Resets /\ use' = SettledCalls({"loads", "sent"})
  /\ UNCHANGED <<brokered, owners, listed, offered>>

NextTools ==
  \/ LoadSucceeds \/ LoadFails \/ TurnBegins \/ TurnEnds \/ ClosesTransport \/ SessionCloses
  \/ \E c \in ToolUses : BeginsCall(c) \/ CallAnswered(c) \/ CallFails(c)
                           \/ CallCancelled(c) \/ CancelArrives(c)
  \/ \E e \in ending : CleanupProceeds(e)

ToolsSpec == InitTools /\ [][NextTools]_toolVars

(***************************************************************************)
(* Properties                                                              *)
(***************************************************************************)
\* A Turn that is over does not control the Desktop: whatever it called last, however
\* long that call waited for the catalogue and whether it was cancelled, the end of the
\* Turn was told to the native side or the connection is closed.
ControlEndsWithTurn == control # 0 => control = owner

\* A Session that is running keeps the tools it started with, as the comment of forThread
\* says: no later transport of it is told that there are none, or refused an answer.
KeepsItsTools == offered => listed \notin {"empty", "refused"}
=============================================================================
