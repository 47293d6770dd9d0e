----------------------------- MODULE MinerSwitch -----------------------------
(***************************************************************************)
(* What the screen may expect of the native side of the app: its requests  *)
(* are carried out one at a time, in the order in which they were made,    *)
(* whichever screens made them.  A start mines for the wallet it names, if *)
(* nobody mines yet and nothing fails; nobody is ever mined for without    *)
(* having asked, nor takes over from another; a stop, whoever makes it,    *)
(* ends whatever mines.  The process may die at any time, and with it what *)
(* was asked and what mines.                                               *)
(***************************************************************************)
EXTENDS Naturals, Sequences

CONSTANT Wallets        \* the wallets a screen may mine for

VARIABLES asked,        \* the requests not yet carried out
          mines         \* the wallet that is mined for, as a set of one or none

switchVars == <<asked, mines>>

Requests == [op : {"start", "stop"}, wallet : Wallets]

SwitchInit == asked = << >> /\ mines = {}

Ask == /\ \E r \in Requests : asked' = Append(asked, r)
       /\ UNCHANGED mines

Answers(op) == /\ asked # << >> /\ Head(asked).op = op
               /\ asked' = Tail(asked)

Start == /\ Answers("start")
         /\ \/ UNCHANGED mines
            \/ mines = {} /\ mines' = {Head(asked).wallet}

Stop == Answers("stop") /\ mines' = {}

Die == asked' = << >> /\ mines' = {}

SwitchNext == Ask \/ Start \/ Stop \/ Die

SwitchSpec == SwitchInit /\ [][SwitchNext]_switchVars
=============================================================================
