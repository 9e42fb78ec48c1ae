---------------------------- MODULE MCControllers ----------------------------
(* Two disk controllers for TLC of which one is enabled; they share no state. *)
(* An RL11 with one drive: a track has two sectors of two words, the write     *)
(* takes two sectors with a part of the second, the read needs a seek.         *)
(* A UDA50 with one drive of two blocks (one of them the RCT), rings of two    *)
(* descriptors, and a host with at most two commands outstanding.              *)
EXTENDS RL11Controller, MscpPort

RLCommand(fn, ie, cyl, sector, wc, diff, marker) ==
  [go |-> TRUE, fn |-> fn, ie |-> ie, unit |-> 0, cyl |-> cyl, sector |-> sector,
   wc |-> wc, diff |-> diff, marker |-> marker]
MCRLCommands == {RLCommand("GET_STATUS", TRUE, 0, 0, 0, 0, FALSE),
                 RLCommand("SEEK", FALSE, 0, 0, 0, 1, TRUE),
                 RLCommand("WRITE_DATA", TRUE, 0, 0, 3, 0, TRUE)}
MCRLSwitches == {<<0, "runstop">>}

MscpCommand(op) == [op |-> op, unit |-> 0, lbn |-> 0, count |-> 1, data |-> "host"]
MCMscpCommands == {MscpCommand("ONLINE"), MscpCommand("WRITE")}

controllervars == <<rlvars, mscpvars>>

ControllersInit == RLStart /\ MscpInit /\ uda.enabled = ~rl.enabled

ControllersNext ==
  \/ RLNext /\ UNCHANGED mscpvars
  \/ MscpNext /\ UNCHANGED rlvars

ControllersSpec ==
  /\ ControllersInit /\ [][ControllersNext]_controllervars
  /\ RLFairness /\ MscpFairness

(* The RL11 executes a command; the host of the UDA50 waits for an answer, or  *)
(* initialises the port.                                                      *)
UnderWay ==
  \/ rl.state # "READY"
  \/ host.pc = "run" /\ service_waiting # <<>>
  \/ \E n \in 1 .. 4 : host.pc = Await[n]

(* Every command ends, and every initialisation (RLCommandEnds, and             *)
(* CommandsAnswered and InitialisationEnds of the UDA50), the controller that  *)
(* is not enabled being idle all the time.                                    *)
CommandsEnd ==
  UnderWay ~> /\ RLSettled
              /\ \/ host.pc \in {"off", "poll"}
                 \/ host.pc = "run" /\ service_waiting = <<>>
                 \/ uda.line_INIT \/ Ended
=============================================================================
