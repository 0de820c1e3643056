---------------------------- MODULE LegacyClient ----------------------------
(***************************************************************************)
(* The older client of the nested SDK: SandboxClient, a context manager    *)
(* that makes one claim when it is entered and deletes it when it is left, *)
(* and PodSnapshotSandboxClient, which adds snapshot triggers.  One thread *)
(* uses one client, and may enter it again after it left.                  *)
(*                                                                         *)
(* A request to the API is carried out and answered, refused, or its       *)
(* answer is lost.  Left out: tracing, pause and resume, and the calls     *)
(* that only talk to the sandbox or read: they leave nothing behind.       *)
(***************************************************************************)
EXTENDS Naturals, FiniteSets

CONSTANTS
  Kinds,         \* "plain": SandboxClient, "snapshot": its subclass
  Modes,         \* "url", "gateway", "tunnel"
  MaxEnters,     \* how often the client is entered (a bound)
  MaxTriggers,   \* snapshots taken (a bound)
  MaxFaults      \* failing requests, and interrupts (a bound)

ASSUME LegacyClientAssumption ==
  /\ Kinds \subseteq {"plain", "snapshot"} /\ Modes \subseteq {"url", "gateway", "tunnel"}
  /\ {MaxEnters, MaxTriggers, MaxFaults} \subseteq Nat

Claims == 1..MaxEnters
Tunnels == 1..MaxEnters
Triggers == 1..MaxTriggers
None == 0

VARIABLES
  kind, mode,
  at,                        \* where the thread is
  then,                      \* what follows __exit__: see Exited
  claim_name, sandbox_name,  \* the claim, and the one whose sandbox is known
  base_url,                  \* None, "given", "gateway" or "tunnel"
  port_forward_process,
  snapshot_crd_installed,
  created_manual_triggers,
  todo,                      \* triggers __exit__ has not come to
  claims,                    \* on the cluster: the claims, with their sandboxes
  alive,                     \* kubectl processes
  triggers,                  \* on the cluster
  excused,                   \* history: what the code gave up without a deletion
  faults

config == <<kind, mode>>
fields == <<claim_name, sandbox_name, base_url, port_forward_process,
            snapshot_crd_installed, created_manual_triggers>>
world == <<claims, alive, triggers>>
vars == <<config, at, then, fields, todo, world, excused, faults>>

Entering == {"checking", "posting", "resolving", "waiting", "gateway", "tunnel"}
Inside == {"inside", "snapping"}
Exiting == {"triggers"}
OnCluster == {"made", "named", "ready"}

(* Names of what may be left behind.                                       *)
Things == ({"claim"} \X Claims) \cup ({"trigger"} \X Triggers) \cup ({"tunnel"} \X Tunnels)

TypeOK ==
  /\ kind \in Kinds /\ mode \in Modes
  /\ at \in {"outside"} \cup Entering \cup Inside \cup Exiting
  /\ then \in {"leave", "raise"}
  /\ claim_name \in {None} \cup Claims /\ sandbox_name \in {None} \cup Claims
  /\ base_url \in {"none", "given", "gateway", "tunnel"}
  /\ port_forward_process \in {None} \cup Tunnels
  /\ snapshot_crd_installed \in BOOLEAN
  /\ created_manual_triggers \subseteq Triggers /\ todo \subseteq created_manual_triggers
  /\ claims \in [Claims -> {"none", "deleted"} \cup OnCluster]
  /\ alive \subseteq Tunnels /\ triggers \in [Triggers -> {"none", "made", "deleted"}]
  /\ excused \subseteq Things /\ faults \in 0..MaxFaults
  /\ at \in Inside =>
       /\ sandbox_name = claim_name /\ claims[claim_name] # "none" /\ base_url # "none"

Init ==
  /\ kind \in Kinds /\ mode \in Modes
  /\ at = "outside" /\ then = "leave"
  /\ claim_name = None /\ sandbox_name = None
  /\ base_url = IF mode = "url" THEN "given" ELSE "none"
  /\ port_forward_process = None /\ snapshot_crd_installed = FALSE
  /\ created_manual_triggers = {} /\ todo = {}
  /\ claims = [c \in Claims |-> "none"]
  /\ alive = {} /\ triggers = [t \in Triggers |-> "none"]
  /\ excused = {} /\ faults = 0

-----------------------------------------------------------------------------
At(pc) == at = pc
Fault == faults < MaxFaults /\ faults' = faults + 1
Forsake(things) == excused' = excused \cup things

(* The claim and the tunnel of this client.                                *)
Own == {<<"claim", claim_name>>, <<"tunnel", port_forward_process>>} \cap Things

(* __exit__ begins with the triggers; the plain client has none.           *)
Exit(next) == at' = "triggers" /\ then' = next /\ todo' = created_manual_triggers

(* An exception leaves SandboxClient.__enter__.  A with statement does not *)
(* call __exit__ then; the subclass does, and raises.                      *)
Raise ==
  IF kind = "snapshot"
  THEN Exit("leave") /\ UNCHANGED excused
  ELSE at' = "outside" /\ Forsake(Own) /\ UNCHANGED <<then, todo>>

(* Mutant: a wait that times out only raises.                              *)
RaiseUncleaned == at' = "outside" /\ UNCHANGED <<then, todo, excused>>

(* The two waits that call __exit__ themselves before they raise.          *)
ExitAndRaise == Exit("raise") /\ UNCHANGED excused

Goto(pc) == at' = pc /\ UNCHANGED <<then, todo, excused>>

Enter ==
  /\ At("outside") /\ claim_name < MaxEnters
  /\ Goto(IF kind = "snapshot" THEN "checking" ELSE "posting")
  /\ UNCHANGED <<config, fields, world, faults>>

(* The subclass looks for the CRD until it has found it once.              *)
CheckSnapshotCrd ==
  /\ At("checking")
  /\ \/ snapshot_crd_installed' = TRUE /\ Goto("posting")
     \/ ~snapshot_crd_installed /\ Raise /\ UNCHANGED snapshot_crd_installed
  /\ UNCHANGED <<config, claim_name, sandbox_name, base_url, port_forward_process,
                 created_manual_triggers, world, faults>>

(* The name is kept before the claim is posted.                            *)
CreateClaim ==
  /\ At("posting")
  /\ claim_name' = claim_name + 1
  /\ UNCHANGED <<config, sandbox_name, base_url, port_forward_process,
                 snapshot_crd_installed, created_manual_triggers, alive, triggers>>

Posted ==
  /\ CreateClaim
  /\ claims' = [claims EXCEPT ![claim_name'] = "made"]
  /\ Goto("resolving")
  /\ UNCHANGED faults

(* The post fails, or is interrupted, with or without the claim.  The      *)
(* subclass exits, except after an interrupt; the plain client raises.     *)
PostFails ==
  /\ CreateClaim /\ Fault
  /\ claims' \in {claims, [claims EXCEPT ![claim_name'] = "made"]}
  /\ \/ kind = "snapshot" /\ Exit("leave") /\ UNCHANGED excused
     \/ at' = "outside" /\ Forsake({<<"claim", claim_name'>>}) /\ UNCHANGED <<then, todo>>

(* The claim's status names its sandbox, or the claim is deleted, the time *)
(* is over, or the watch fails.                                            *)
ResolveSandboxName ==
  /\ At("resolving")
  /\ \/ claims[claim_name] \in {"named", "ready"} /\ Goto("waiting")
     \/ claims[claim_name] \in {"made", "deleted"} /\ Raise
  /\ UNCHANGED <<config, fields, world, faults>>

(* Which base URL: the one there is, also from an earlier entry; else the  *)
(* Gateway's; else a tunnel is started.                                    *)
Strategy ==
  IF base_url # "none" THEN Goto("inside") /\ UNCHANGED <<alive, port_forward_process>>
  ELSE IF mode = "gateway" THEN Goto("gateway") /\ UNCHANGED <<alive, port_forward_process>>
  ELSE /\ Goto("tunnel")
       /\ port_forward_process' = claim_name
       /\ alive' = alive \cup {claim_name}

(* Mutant: the name found by an earlier entry is kept.                     *)
SandboxIsReadyOnce ==
  /\ At("waiting") /\ claims[claim_name] = "ready"
  /\ sandbox_name' = IF sandbox_name = None THEN claim_name ELSE sandbox_name
  /\ Strategy
  /\ UNCHANGED <<config, claim_name, base_url, snapshot_crd_installed,
                 created_manual_triggers, claims, triggers, faults>>

SandboxIsReady ==
  /\ At("waiting") /\ claims[claim_name] = "ready"
  /\ sandbox_name' = claim_name
  /\ Strategy
  /\ UNCHANGED <<config, claim_name, base_url, snapshot_crd_installed,
                 created_manual_triggers, claims, triggers, faults>>

SandboxNotReady ==
  /\ At("waiting") /\ claims[claim_name] # "ready"
  /\ ExitAndRaise
  /\ UNCHANGED <<config, fields, world, faults>>

(* A watch that fails raises from where it is.                             *)
WatchFails ==
  /\ at \in {"resolving", "waiting", "gateway"} /\ Fault
  /\ Raise
  /\ UNCHANGED <<config, fields, world>>

Reached(url) ==
  /\ base_url' = url
  /\ Goto("inside")
  /\ UNCHANGED <<config, claim_name, sandbox_name, port_forward_process,
                 snapshot_crd_installed, created_manual_triggers, world, faults>>

GatewayReached == At("gateway") /\ Reached("gateway")
GatewayTimesOut ==
  At("gateway") /\ Raise /\ UNCHANGED <<config, fields, world, faults>>

TunnelReached == At("tunnel") /\ port_forward_process \in alive /\ Reached("tunnel")
TunnelCrashed ==
  /\ At("tunnel") /\ port_forward_process \notin alive
  /\ Raise
  /\ UNCHANGED <<config, fields, world, faults>>
TunnelTimesOut ==
  At("tunnel") /\ ExitAndRaise /\ UNCHANGED <<config, fields, world, faults>>

(* A snapshot posts a trigger, lists it and watches it; whatever comes of  *)
(* that is returned.                                                       *)
Snapshot(t) ==
  /\ At("inside") /\ snapshot_crd_installed /\ triggers[t] = "none"
  /\ \/ /\ triggers' = [triggers EXCEPT ![t] = "made"]
        /\ created_manual_triggers' = created_manual_triggers \cup {t}
        /\ Goto("snapping") /\ UNCHANGED faults
     \/ Fault /\ UNCHANGED <<at, then, todo, triggers, created_manual_triggers, excused>>
     \/ /\ Fault /\ triggers' = [triggers EXCEPT ![t] = "made"]
        /\ Forsake({<<"trigger", t>>})
        /\ UNCHANGED <<at, then, todo, created_manual_triggers>>
  /\ UNCHANGED <<config, claim_name, sandbox_name, base_url, port_forward_process,
                 snapshot_crd_installed, claims, alive>>

SnapshotEnds ==
  At("snapping") /\ Goto("inside") /\ UNCHANGED <<config, fields, world, faults>>

(* The block ends, or an exception leaves it.                              *)
Leave ==
  /\ At("inside") /\ Exit("leave")
  /\ UNCHANGED <<config, fields, world, excused, faults>>

-----------------------------------------------------------------------------
(* What follows __exit__: its caller in __enter__ raises, which brings the *)
(* subclass to __exit__ once more, or the client is left.                  *)
ExitAgain == then = "raise" /\ kind = "snapshot"
Exited == IF ExitAgain THEN Exit("leave") ELSE at' = "outside" /\ UNCHANGED <<then, todo>>

(* A trigger is deleted, or was; an ApiException is logged.                *)
DeleteTrigger(t) ==
  /\ At("triggers") /\ t \in todo
  /\ todo' = todo \ {t}
  /\ \/ triggers' = [triggers EXCEPT ![t] = "deleted"] /\ UNCHANGED <<excused, faults>>
     \/ Fault /\ Forsake({<<"trigger", t>>}) /\ UNCHANGED triggers
  /\ UNCHANGED <<config, at, then, fields, claims, alive>>

(* Any other exception leaves __exit__, past the claim and the tunnel.     *)
DeletionRaises ==
  /\ At("triggers") /\ todo # {} /\ Fault
  /\ IF ExitAgain
     THEN Exit("leave") /\ UNCHANGED excused
     ELSE /\ Forsake(Own \cup ({"trigger"} \X todo))
          /\ at' = "outside" /\ todo' = {} /\ UNCHANGED then
  /\ UNCHANGED <<config, fields, world>>

(* SandboxClient.__exit__ stops the tunnel and deletes the claim, if it is *)
(* not gone; either may fail, which is logged, and the exit goes on.       *)
SuperExit ==
  /\ At("triggers") /\ todo = {}
  /\ \E lost \in SUBSET Own :
       /\ IF lost = {} THEN UNCHANGED faults ELSE Fault
       /\ Forsake(lost)
       /\ alive' = IF <<"tunnel", port_forward_process>> \in lost
                   THEN alive ELSE alive \ {port_forward_process}
       /\ claims' = [c \in Claims |->
                      IF /\ c = claim_name /\ <<"claim", c>> \notin lost
                         /\ claims[c] \in OnCluster
                      THEN "deleted" ELSE claims[c]]
  /\ Exited
  /\ UNCHANGED <<config, fields, triggers>>

(* A KeyboardInterrupt is no Exception: nothing catches it.                *)
Interrupt ==
  /\ at \in (Entering \ {"posting"}) \cup Exiting /\ Fault
  /\ Forsake(Own \cup ({"trigger"} \X todo))
  /\ at' = "outside" /\ todo' = {} /\ UNCHANGED then
  /\ UNCHANGED <<config, fields, world>>

(* The cluster, and the tunnel's process.                                  *)
ClaimAdvances(c) ==
  /\ \/ claims[c] = "made" /\ claims' = [claims EXCEPT ![c] = "named"]
     \/ claims[c] = "named" /\ claims' = [claims EXCEPT ![c] = "ready"]
     \/ claims[c] \in OnCluster /\ claims' = [claims EXCEPT ![c] = "deleted"]
  /\ UNCHANGED <<config, at, then, fields, todo, alive, triggers, excused, faults>>

TunnelDies(p) ==
  /\ alive' = alive \ {p}
  /\ UNCHANGED <<config, at, then, fields, todo, claims, triggers, excused, faults>>

Next ==
  \/ Enter \/ CheckSnapshotCrd \/ Posted \/ PostFails \/ ResolveSandboxName
  \/ SandboxIsReady \/ SandboxNotReady \/ WatchFails
  \/ GatewayReached \/ GatewayTimesOut
  \/ TunnelReached \/ TunnelCrashed \/ TunnelTimesOut
  \/ \E t \in Triggers : Snapshot(t) \/ DeleteTrigger(t)
  \/ SnapshotEnds \/ Leave \/ DeletionRaises \/ SuperExit \/ Interrupt
  \/ \E c \in Claims : ClaimAdvances(c)
  \/ \E p \in alive : TunnelDies(p)

Spec == Init /\ [][Next]_vars

-----------------------------------------------------------------------------
(* When the thread is outside the client, nothing the client made is left: *)
(* no claim, no kubectl, no trigger.  Except what the code gives up        *)
(* knowingly or not: a deletion that failed, an interrupt, an answer that  *)
(* never came, and in the plain client an exception from __enter__ that    *)
(* is not one of its two cleaned time outs.  So the subclass cleans up     *)
(* whichever step of entering fails, and however often it is entered.      *)
NothingIsLeft ==
  at = "outside" =>
    /\ \A c \in Claims : claims[c] \in OnCluster => <<"claim", c>> \in excused
    /\ \A p \in alive : <<"tunnel", p>> \in excused
    /\ \A t \in Triggers : triggers[t] = "made" => <<"trigger", t>> \in excused
-----------------------------------------------------------------------------
(* The inductive form of NothingIsLeft: what each place of the thread still*)
(* answers for.  Whatever else there is on the cluster is excused.         *)

(* From the post on there is a claim, and before it one more may be made.  *)
ClaimIsNamed ==
  /\ at \in {"checking", "posting"} => claim_name < MaxEnters
  /\ at \in {"resolving", "waiting", "gateway", "tunnel"} \cup Inside => claim_name # None
  /\ at \in {"gateway", "tunnel"} =>
       sandbox_name = claim_name /\ claims[claim_name] # "none"

(* The claim of this entry, until the exit.                                *)
OnlyOwnClaim ==
  \A c \in Claims :
    claims[c] \in OnCluster /\ (c # claim_name \/ at \in {"outside", "checking", "posting"}) =>
      <<"claim", c>> \in excused

(* The last tunnel, once this entry has one.                               *)
OnlyOwnTunnel ==
  \A p \in alive :
    p # port_forward_process \/ at \in {"outside"} \cup (Entering \ {"tunnel"}) =>
      <<"tunnel", p>> \in excused

(* The triggers of the list, of which __exit__ has todo before it.         *)
Unlisted(t) ==
  \/ t \notin created_manual_triggers
  \/ at = "triggers" /\ t \notin todo
  \/ at \in {"outside"} \cup Entering

OnlyListedTriggers ==
  \A t \in Triggers :
    triggers[t] = "made" /\ Unlisted(t) => <<"trigger", t>> \in excused

LegacyInv ==
  TypeOK /\ ClaimIsNamed /\ OnlyOwnClaim /\ OnlyOwnTunnel /\ OnlyListedTriggers
=============================================================================
