------------------------------ MODULE LineFeed ------------------------------
(***************************************************************************)
(* What a miner may expect of its pool connection: the lines the pool      *)
(* announces reach the message handler in the order they were announced,   *)
(* each at most once, none invented and none merged with a neighbour.      *)
(* Lines may be lost only as a suffix, when the connection breaks.         *)
(***************************************************************************)
EXTENDS Naturals, Sequences

CONSTANT Lines          \* the non-empty lines a pool may send

VARIABLES announced,    \* the lines the pool has sent
          delivered     \* the lines handed to StratumClient::handle_message

feedVars == <<announced, delivered>>

FeedInit == announced = << >> /\ delivered = << >>

Announce == /\ \E l \in Lines : announced' = Append(announced, l)
            /\ UNCHANGED delivered

Deliver == /\ Len(delivered) < Len(announced)
           /\ delivered' = Append(delivered, announced[Len(delivered) + 1])
           /\ UNCHANGED announced

FeedNext == Announce \/ Deliver

FeedSpec == FeedInit /\ [][FeedNext]_feedVars
=============================================================================
