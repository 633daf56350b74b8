------------------------------ MODULE MCParts -------------------------------
(***************************************************************************)
(* The parts that share no state with the others, for TLC: the two loops   *)
(* that hand out conversations, the login sessions, the rate limiter,      *)
(* paging, the hours of service and the settings.  A behaviour is one of   *)
(* one of them; the others stay where they are.                            *)
(***************************************************************************)
EXTENDS ReleaseLoop, PickUpLoop, Sessions, RateLimiter, Paging, BusinessHours, Settings

VARIABLE part

storeVars == <<vars, todo, before, looked, asFound>>
partVars == <<part, storeVars, sessionVars, limiterVars, pagingVars, hoursVars,
              rowVars>>

ReleaseAtRest == todo = Convs /\ before = current

PickUpAtRest ==
  /\ looked = 0
  /\ asFound = [agent |-> 1, current |-> current, convStatus |-> convStatus, owner |-> owner]

StoreAtRest ==
  /\ agents = Agents /\ agentStatus = [a \in Agents |-> "offline"]
  /\ disabled = [a \in Agents |-> FALSE]
  /\ maxConv \in [Agents -> {1}] /\ current = [a \in Agents |-> 0]
  /\ lastID = MaxConversations
  /\ convStatus = [c \in Convs |-> "waiting"] /\ owner = [c \in Convs |-> NoAgent]
  /\ aiEnabled = FALSE /\ aiMode = "human_first" /\ bizEnabled = TRUE /\ reclosed = FALSE
  /\ ReleaseAtRest /\ PickUpAtRest

\* Who comes online does not matter, nor what the others' records say.
MCPickUpInit ==
  /\ maxConv \in {[a \in Agents |-> m] : m \in Limits}
  /\ current \in {[a \in Agents |-> n] : n \in Counters}
  /\ convStatus \in [Convs -> ConversationStatuses]
  /\ owner = [c \in Convs |-> IF convStatus[c] = "assigned" THEN 2 ELSE NoAgent]
  /\ asFound = [agent |-> 1, current |-> current, convStatus |-> convStatus, owner |-> owner]
  /\ PickUpInit

SessionsAtRest == SessionInit /\ \A x \in Accounts : account[x].password = Bootstrap

\* Some give both fields, some one, some none.
MCEdits ==
  {[kept |-> Blank, always |-> Blank], [kept |-> Blank, always |-> 2],
   [kept |-> 2, always |-> Blank], [kept |-> 1, always |-> 2]}

HoursAtRest == opens = 0 /\ closes = 0 /\ minute = 0

OthersAtRest == LimiterInit /\ PagingInit /\ RowsInit

PartsInit ==
  \/ /\ part = "release" /\ LoopInit /\ PickUpAtRest
     /\ SessionsAtRest /\ HoursAtRest /\ OthersAtRest
  \/ /\ part = "pick_up" /\ MCPickUpInit /\ ReleaseAtRest
     /\ SessionsAtRest /\ HoursAtRest /\ OthersAtRest
  \/ part = "sessions" /\ StoreAtRest /\ SessionInit /\ HoursAtRest /\ OthersAtRest
  \/ part = "hours" /\ StoreAtRest /\ SessionsAtRest /\ HoursInit /\ OthersAtRest
  \/ /\ part \in {"limiter", "paging", "settings"}
     /\ StoreAtRest /\ SessionsAtRest /\ HoursAtRest /\ OthersAtRest

PartsNext ==
  \/ /\ part = "release" /\ LoopNext /\ UNCHANGED <<looked, asFound>>
     /\ UNCHANGED <<part, sessionVars, limiterVars, pagingVars, hoursVars, rowVars>>
  \/ /\ part = "pick_up" /\ PickUpNext /\ UNCHANGED <<todo, before>>
     /\ UNCHANGED <<part, sessionVars, limiterVars, pagingVars, hoursVars, rowVars>>
  \/ /\ part = "sessions" /\ SessionNext
     /\ UNCHANGED <<part, storeVars, limiterVars, pagingVars, hoursVars, rowVars>>
  \/ /\ part = "limiter" /\ LimiterNext
     /\ UNCHANGED <<part, storeVars, sessionVars, pagingVars, hoursVars, rowVars>>
  \/ /\ part = "paging" /\ PagingNext
     /\ UNCHANGED <<part, storeVars, sessionVars, limiterVars, hoursVars, rowVars>>
  \/ /\ part = "hours" /\ HoursNext
     /\ UNCHANGED <<part, storeVars, sessionVars, limiterVars, pagingVars, rowVars>>
  \/ /\ part = "settings" /\ RowsNext
     /\ UNCHANGED <<part, storeVars, sessionVars, limiterVars, pagingVars, hoursVars>>

PartsSpec == PartsInit /\ [][PartsNext]_partVars

=============================================================================
