------------------------ MODULE MCUnibusArbitration ------------------------
(* The arbitration of both PRUs for TLC, one at a time: a UniBone on the       *)
(* UNIBUS or a QBone on the QBUS, each with another board.  They share no      *)
(* state.                                                                     *)
EXTENDS BusArbitration

VARIABLE machine   \* the machine that is looked at

\* The devices' lines on the QBUS, and those of the other board.
MCQConfigs == {<<{4, 8}, {5}>>, <<{4}, {8}>>}

\* Words 0 and 1 are emulated, 2 is another board's, nobody answers at 3 and 4.
MCQDmas == {<<0, 3>>, <<2, 2>>}
MCQCycles == {[addr |-> 0, strobes |-> <<"DIN", "DIN">>], [addr |-> 0, strobes |-> <<"DIN", "DOUT">>]}

machinevars == <<machine, vars, qbusvars>>

\* The one that is not looked at is in one of its initial states.
MachineInit ==
  /\ machine \in {"UniBone", "QBone"} /\ ArbInit /\ QbusInit
  /\ IF machine = "UniBone" THEN Processor /\ QNP \in qarm.lines
     ELSE cpu = CHOOSE c \in {"physical", "off"} : c \in Arbitrators

MachineNext ==
  /\ UNCHANGED machine
  /\ \/ machine = "UniBone" /\ ArbNext /\ UNCHANGED qbusvars
     \/ machine = "QBone" /\ QbusNext /\ UNCHANGED vars

\* Fairness of UnibusArbitration, and QbusFairness, for the machine that is looked at.
MachineFairness ==
  /\ WF_vars(machine = "UniBone" /\ main_loop)
  /\ WF_vars(intr_slave_ack) /\ WF_vars(deviceregister_ack) /\ WF_vars(timeout_reached)
  /\ \A line \in BoardLevels : WF_vars(board_accept(line))
  /\ WF_vars(board_seize) /\ WF_vars(board_transfer) /\ WF_vars(board_done)
  /\ WF_vars(physical_grant(NP)) /\ SF_vars(physical_ungrant)
  /\ WF_vars(physical.BBSY /\ physical_cycle)
  /\ WF_qbusvars(machine = "QBone" /\ qbus_loop) /\ WF_qbusvars(qbus_deviceregister_ack)
  /\ QbusEnvironmentFairness

MachineSpec == MachineInit /\ [][MachineNext]_machinevars /\ MachineFairness
=============================================================================
