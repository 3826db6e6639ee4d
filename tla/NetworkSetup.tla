---------------------------- MODULE NetworkSetup ----------------------------
(***************************************************************************)
(* Re-addressing a unit over the network, and the other settings written   *)
(* and read back: HyperdeckSetup (HTTP, one request per step) and          *)
(* Ultimatte's set_network (one block per session on the text channel).    *)
(* The unit takes a change first and runs it later; until then it answers  *)
(* at its old address, for a moment at either while it reports none, and   *)
(* afterwards at the new one only.                                         *)
(*                                                                         *)
(* A netmask, a gateway and the DNS servers go the way of one field here,  *)
(* "mask"; the address a DHCP server gives is Leased.                      *)
(***************************************************************************)
EXTENDS Naturals, FiniteSets

CONSTANTS Addresses, Masks,     \* values an interface may be given
          Leased,               \* the address of the DHCP server's lease
          Keeps                 \* values of a setting without an interface

VARIABLES op,     \* the caller's call and what it has learnt
          unit    \* the deck or the Ultimatte

nVars == <<op, unit>>

NotGiven   == "unset"       \* an argument left None
Nowhere == "nowhere"     \* 0.0.0.0 while the interface reapplies
Types   == {"Static", "DHCP"}

ASSUME SetupValues ==
    /\ Addresses # {} /\ Masks # {} /\ Leased \notin Addresses
    /\ Nowhere \notin Addresses \cup {Leased}

Apis    == {"deck", "ultimatte"}
Confs   == [type : Types, addr : Addresses, mask : Masks]

\* What the interface runs once it has reapplied its configuration.
RunsOf(conf) == IF conf.type = "DHCP" THEN [addr |-> Leased, mask |-> conf.mask]
                ELSE [addr |-> conf.addr, mask |-> conf.mask]

Given(v, old) == IF v = NotGiven THEN old ELSE v

-----------------------------------------------------------------------------
(* External: the unit. *)

\* It answers a request that goes to the address it runs on; while it reapplies it
\* may answer at once, and says that it has no address, or not at all.
Answers(host) == unit.run.addr \in {host, Nowhere}

\* The interface goes down, and comes up on what it is configured with; a call may
\* have returned by then.
UnitReapplies ==
    /\ unit.run # RunsOf(unit.conf) /\ op.at \in {"poll", "done", "raised"}
    /\ unit' = [unit EXCEPT !.run = IF @.addr = Nowhere THEN RunsOf(unit.conf)
                                    ELSE [addr |-> Nowhere, mask |-> @.mask]]
    /\ UNCHANGED op

-----------------------------------------------------------------------------
(* set_network. *)

\* The arguments: something to set, and for an Ultimatte the address and its
\* netmask together, one field on the wire (ValueError otherwise).
Arguments(api) ==
    {a \in [type : Types \cup {NotGiven}, addr : Addresses \cup {NotGiven},
            mask : Masks \cup {NotGiven}] :
        /\ \E f \in DOMAIN a : a[f] # NotGiven
        /\ api = "ultimatte" => (a.addr = NotGiven <=> a.mask = NotGiven)}

AskedNetwork ==
    /\ op.at = "idle"
    /\ \E conf \in Confs, api \in Apis :
          /\ unit' = [unit EXCEPT !.conf = conf, !.run = RunsOf(conf)]
          /\ \E args \in Arguments(api) :
                op' = [op EXCEPT !.at = IF api = "deck" THEN "read" ELSE "write",
                                 !.api = api, !.args = args,
                                 !.host = RunsOf(conf).addr,
                                 !.before = IF api = "deck" THEN @ ELSE conf]

\* The deck takes the whole interface, so what is not given is read first.
ReadBefore ==
    /\ op.at = "read"
    /\ \/ Answers(op.host) /\ op' = [op EXCEPT !.at = "write", !.before = unit.conf]
       \/ op' = [op EXCEPT !.at = "raised", !.why = "unreachable"]
    /\ UNCHANGED unit

\* The configuration to be written; an Ultimatte is sent the fields given, and
\* keeps the others itself.
Body == [type |-> Given(op.args.type, op.before.type),
         addr |-> Given(op.args.addr, op.before.addr),
         mask |-> Given(op.args.mask, op.before.mask)]

\* Where the read-back goes: a deck given a new address is asked there.
ReadBackHost ==
    IF op.api = "deck" /\ Body.type = "Static" /\ op.args.addr # NotGiven THEN op.args.addr ELSE op.host

\* The PUT or the block: accepted, whereupon the unit holds what was written or
\* other values; refused (HTTP 401, success: false, NAK); or taken without the
\* answer coming back.
Write ==
    /\ op.at = "write"
    /\ \/ \E held \in Confs \cup {Body} :
             /\ unit' = [unit EXCEPT !.conf = held]
             /\ op' = [op EXCEPT !.at = "poll", !.want = Body, !.readback = ReadBackHost]
       \/ op' = [op EXCEPT !.at = "raised", !.why = "refused"] /\ UNCHANGED unit
       \/ /\ unit' = [unit EXCEPT !.conf = Body]
          /\ op' = [op EXCEPT !.at = "raised", !.why = "no answer"]

\* The interface runs what it is configured with; under DHCP, it has an address.
Settled ==
    IF op.api = "deck"
    THEN unit.run.addr # Nowhere /\ (unit.conf.type = "DHCP" \/ unit.run = RunsOf(unit.conf))
    ELSE op.args.addr # NotGiven =>
            /\ unit.run.addr # Nowhere
            /\ unit.run = [addr |-> unit.conf.addr, mask |-> unit.conf.mask]

\* Mutant: what the deck accepted is taken for what it holds.
AcceptedOk == TRUE

\* A deck holds what was written; of one on DHCP, the manual values are not looked
\* at, and of an Ultimatte nothing is.
ConfiguredOk ==
    op.api = "deck" => IF op.want.type = "DHCP" THEN unit.conf.type = "DHCP" ELSE unit.conf = op.want

Good == Answers(op.readback) /\ ConfiguredOk /\ Settled

\* The call returns the interface as it was read.
PollGood ==
    /\ op.at = "poll" /\ Good
    /\ op' = [op EXCEPT !.at = "done", !.got = [conf |-> unit.conf, run |-> unit.run]]
    /\ UNCHANGED unit

\* The read-back's time, many times that of a reapply, is over.
GivesUp ==
    /\ op.at = "poll" /\ ~Good /\ unit.run = RunsOf(unit.conf)
    /\ op' = [op EXCEPT !.at = "raised", !.why = "check this unit"]
    /\ UNCHANGED unit

-----------------------------------------------------------------------------
(* The settings without an interface: name, language, protocol access, users, *)
(* clock, NTP.  Each is written and read back; unit.keeps is what the unit    *)
(* holds, setting by setting.                                                 *)

Settings == {"one", "other"}

AskedSetting ==
    /\ op.at = "idle"
    /\ \E keeps \in [Settings -> Keeps], args \in [Settings -> Keeps \cup {NotGiven}] :
          /\ \E s \in Settings : args[s] # NotGiven
          /\ unit' = [unit EXCEPT !.keeps = keeps]
          /\ op' = [op EXCEPT !.at = "merge", !.set = args]

\* set_network_access reads the full list and merges what was given into it.
Merge ==
    /\ op.at = "merge"
    /\ \/ op' = [op EXCEPT !.at = "put", !.list = [s \in Settings |-> Given(op.set[s], unit.keeps[s])]]
       \/ op' = [op EXCEPT !.at = "raised", !.why = "unreachable"]
    /\ UNCHANGED unit

\* The unit takes it, takes another value for it, takes it with the next reboot
\* and says so, or refuses.
Put ==
    /\ op.at = "put"
    /\ \/ \E taken \in {op.list, [op.list EXCEPT !["one"] = CHOOSE k \in Keeps : TRUE]} :
             /\ unit' = [unit EXCEPT !.keeps = taken]
             /\ op' = [op EXCEPT !.at = "verify"]
       \/ unit' = [unit EXCEPT !.pending = op.list] /\ op' = [op EXCEPT !.at = "reboot"]
       \/ op' = [op EXCEPT !.at = "raised", !.why = "refused"] /\ UNCHANGED unit

\* _verify: every setting that was given reads as it was written, or it raises.
Verify ==
    /\ op.at = "verify"
    /\ op' = IF \A s \in Settings : op.set[s] \in {NotGiven, unit.keeps[s]}
             THEN [op EXCEPT !.at = "done"]
             ELSE [op EXCEPT !.at = "raised", !.why = "check this unit"]
    /\ UNCHANGED unit

\* reboot(): the one-time key, and the PUT that gives it back.
Reboot ==
    /\ op.at = "reboot"
    /\ unit' = [unit EXCEPT !.keeps = unit.pending]
    /\ op' = [op EXCEPT !.at = "done"]

-----------------------------------------------------------------------------

SetupInit ==
    LET conf == [type |-> "Static", addr |-> CHOOSE a \in Addresses : TRUE,
                 mask |-> CHOOSE m \in Masks : TRUE]
        keeps == [s \in Settings |-> CHOOSE k \in Keeps : TRUE]
    IN /\ op = [at |-> "idle", api |-> "deck", args |-> [type |-> NotGiven, addr |-> NotGiven, mask |-> NotGiven],
                host |-> RunsOf(conf).addr, readback |-> Nowhere, before |-> conf, want |-> conf,
                got |-> [conf |-> conf, run |-> RunsOf(conf)],
                set |-> [s \in Settings |-> NotGiven], list |-> keeps, why |-> ""]
       /\ unit = [conf |-> conf, run |-> RunsOf(conf), keeps |-> keeps, pending |-> keeps]

SetupNext ==
    \/ AskedNetwork \/ ReadBefore \/ Write \/ PollGood \/ GivesUp \/ UnitReapplies
    \/ AskedSetting \/ Merge \/ Put \/ Verify \/ Reboot

SetupSpec == SetupInit /\ [][SetupNext]_nVars

-----------------------------------------------------------------------------
(* Properties. *)

Running == unit.run = RunsOf(unit.conf)

\* What a deck's call that returned promises: the interface has the type asked for and,
\* if that is static, holds every value that was given and every other as it was, and runs
\* them; on DHCP it ran on some address when it was read, which may still be the old one.
DeckIsTold ==
    /\ unit.conf.type = Given(op.args.type, op.before.type)
    /\ unit.conf.type = "Static" =>
          Running /\ \A f \in DOMAIN op.args : unit.conf[f] = Given(op.args[f], op.before[f])
    /\ op.got.run.addr # Nowhere

\* What an Ultimatte's does: if an address was given, the interface ran, when it was read,
\* on the static address the unit holds, and goes on doing so unless it is on DHCP.  That
\* the unit holds what was given is left to the caller, who gets what was read.
UltimatteIsTold ==
    op.args.addr # NotGiven =>
        /\ op.got.run = [addr |-> op.got.conf.addr, mask |-> op.got.conf.mask]
        /\ unit.conf.type = "Static" => Running

\* The "CHECK THIS DECK" of a static interface that had been one, or was given its
\* address, is never a false alarm: the read-back goes where the deck went, so the
\* deck holds something else than was written.
AlarmIsTrue ==
    op.why = "check this unit" /\ op.api = "deck" /\ op.want.type = "Static"
        /\ (op.before.type = "Static" \/ op.args.addr # NotGiven)
    => \/ unit.conf # op.want
       \/ \E s \in Settings : op.set[s] \notin {NotGiven, unit.keeps[s]}

\* What is said of an interface or a setting that was written and read back is true.
EndIsTold ==
    /\ op.at = "done" =>
        /\ IF op.api = "deck" THEN DeckIsTold ELSE UltimatteIsTold
        /\ \A s \in Settings : op.set[s] \in {NotGiven, unit.keeps[s]}
    /\ AlarmIsTrue

\* set_network of setup.py: "Set the interface and return it READ BACK once it is live."
ReturnsLive == op.at = "done" /\ op.api = "deck" => op.got.run = RunsOf(op.got.conf)

\* set_network of setup.py: "If address changes, the read-back goes to the NEW
\* address (the old one stops answering)."
MovedIsFollowed ==
    op.why = "check this unit" /\ op.readback # Nowhere /\ op.api = "deck"
        /\ unit.conf.type = "Static" => op.readback = unit.run.addr
=============================================================================
