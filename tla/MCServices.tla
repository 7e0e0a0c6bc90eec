----------------------------- MODULE MCServices -----------------------------
(***************************************************************************)
(* The parts of the program that share no state with one another, each on  *)
(* its own: a behaviour is about one of them and leaves the others at      *)
(* their start.                                                            *)
(***************************************************************************)
EXTENDS EventLedger, Mailbox, Terminal, Swarm, SupervisedRun

VARIABLE service

services == <<service, ledgerVars, mailVars, termVars, swarmVars, runVars>>

Init ==
  /\ service \in {"ledger", "mail", "terminal", "swarm", "run"}
  /\ InitLedger /\ InitMail /\ InitTerminal /\ InitSwarm /\ InitRun
  /\ service # "swarm" => options = [failFast |-> FALSE, faulty |-> FALSE]

Next ==
  \/ /\ service = "ledger" /\ NextLedger
     /\ UNCHANGED <<service, mailVars, termVars, swarmVars, runVars>>
  \/ /\ service = "mail" /\ NextMail
     /\ UNCHANGED <<service, ledgerVars, termVars, swarmVars, runVars>>
  \/ /\ service = "terminal" /\ NextTerminal
     /\ UNCHANGED <<service, ledgerVars, mailVars, swarmVars, runVars>>
  \/ /\ service = "swarm" /\ NextSwarm
     /\ UNCHANGED <<service, ledgerVars, mailVars, termVars, runVars>>
  \/ /\ service = "run" /\ NextRun
     /\ UNCHANGED <<service, ledgerVars, mailVars, termVars, swarmVars>>

\* FairLedger, FairMail and the others, of the part the behaviour is about.
Fairness ==
  /\ WF_ledgerVars(service = "ledger" /\ Pass)
  /\ \A c \in Consumers : WF_ledgerVars(service = "ledger" /\ Waiter(c))
  /\ \A a \in Agents : /\ WF_mailVars(service = "mail" /\ List(a))
                       /\ SF_mailVars(service = "mail" /\ Acknowledge(a))
  /\ \A c \in Clients : /\ WF_termVars(service = "terminal" /\ SendBacklog(c))
                        /\ WF_termVars(service = "terminal" /\ (Receive(c) \/ Lag(c)))
  /\ WF_swarmVars(service = "swarm" /\ Supervisor)
  /\ WF_swarmVars(service = "swarm" /\ GraceEnds)
  /\ \A w \in Workers :
       WF_swarmVars(service = "swarm" /\ procs[w].state = "killed" /\ Exit(w, 1))

Spec == Init /\ [][Next]_services /\ Fairness
=============================================================================
