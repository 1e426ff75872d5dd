------------------------------- MODULE Funds -------------------------------
(***************************************************************************)
(* The group fund, and the paged lists it is read through.  A behaviour is *)
(* one of four: the fee and the price change while payments come in        *)
(* ("prices"); they stay and the event is settled more often ("again");    *)
(* expenses of several sizes, rows from before amounts were kept, and      *)
(* transactions that abort and are retried ("retries"); or the fund stays  *)
(* empty and a client reads one of the paged lists to its end, a fund's    *)
(* statement or another ("lists", module Feed, which shares no state with  *)
(* EventFunds).                                                            *)
(***************************************************************************)
EXTENDS EventFunds

CONSTANTS Doc, Key, Limit, DefaultPage, MaxPage, MaxChanges

VARIABLES area, feed, list, cursor, finished, got, steady, rekeyed, changes

feedVars == <<feed, list, cursor, finished, got, steady, rekeyed, changes>>
fundsVars == <<area, vars, feedVars>>

Prices == INSTANCE EventFunds WITH Cost <- {1}, LegacyRow <- {}, Retries <- FALSE, MaxLedger <- 3
Again == INSTANCE EventFunds WITH
           Fee <- {1}, Price <- {}, Cost <- {1}, LegacyRow <- {}, Retries <- FALSE
Retried == INSTANCE EventFunds WITH Fee <- {1}, Price <- {}

F == INSTANCE Feed WITH Row <- Doc, rows <- list, ended <- finished

NoFeed ==
  /\ feed = Null /\ list = Null /\ cursor = Null /\ finished = Null
  /\ got = Null /\ steady = Null /\ rekeyed = Null /\ changes = Null

FundsInit ==
  \/ area = "prices" /\ Prices!Init /\ NoFeed
  \/ area = "again" /\ Again!Init /\ NoFeed
  \/ area = "retries" /\ Retried!Init /\ NoFeed
  \/ area = "lists" /\ Prices!Init /\ fee = [e \in Event |-> 1] /\ F!Init

FundsNext ==
  /\ UNCHANGED area
  /\ \/ area = "prices" /\ Prices!Next /\ UNCHANGED feedVars
     \/ area = "again" /\ Again!Next /\ UNCHANGED feedVars
     \/ area = "retries" /\ Retried!Next /\ UNCHANGED feedVars
     \/ area = "lists" /\ F!Next /\ UNCHANGED vars
     \/ area = "lists" /\ finished /\ UNCHANGED <<vars, feedVars>>

FundsSpec == FundsInit /\ [][FundsNext]_fundsVars

-----------------------------------------------------------------------------
\* Everything stays of its type, and without retries and legacy rows what a settled event has posted, and the
\* snapshot it keeps, follow the payment rows through price changes, late payments,
\* corrections and settling again (LedgerMatchesPayments, SnapshotCurrent).
LedgerFollowsPayments ==
  /\ TypeOK
  /\ area \in {"prices", "again"} => LedgerMatchesPayments /\ SnapshotCurrent

\* Whoever reads a list to its end was given every row that stayed, and none twice.
FeedSound == area = "lists" => F!FeedSound

=============================================================================
