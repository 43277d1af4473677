------------------------------ MODULE UpLogind ------------------------------
(***************************************************************************)
(* Which critical action is taken (src/linux/up-backend.c): the first one  *)
(* that logind allows, from the configured one on, in the order of a       *)
(* table.  Each question is a call that the daemon waits for, and logind's *)
(* answers may change between two of them (an inhibitor comes and goes, a  *)
(* swap file is turned off).                                               *)
(***************************************************************************)
EXTENDS Integers, Sequences

CONSTANT ConfigFiles   \* what UPower.conf may say of CriticalPowerAction

VARIABLES
  logind_can,      \* what logind would answer to CanHybridSleep and CanHibernate
  logind_config,   \* CriticalPowerAction, "none" when the file or the key is missing
  logind_asker,    \* who waits for the search: nobody, a bus client or take_action
  logind_i,        \* the entry of the table that is next
  logind_yes,      \* the methods this search was told "yes" for (history variable)
  logind_refused,  \* and those it was not (history variable)
  logind_result    \* the last answer to GetCriticalAction or call of logind

logindVars == <<logind_can, logind_config, logind_asker, logind_i, logind_yes,
                logind_refused, logind_result>>

Actions == <<"HybridSleep", "Hibernate", "PowerOff">>
Unasked == {"PowerOff"}     \* without a can_method

\* An error of the call is the answer "error".
CanAnswers == {"yes", "no", "challenge", "na", "error"}

\* Mutant: a challenge, which needs an interactive user, is good enough.
MutCheckActionResult(result) == result \in {"yes", "challenge"}

\* check_action_result()
CheckActionResult(result) == result = "yes"

\* Where the search of up_backend_get_critical_action() starts: an action that is
\* not in the table, and none, are the first one.
StartOfSearch(action) ==
  IF \E i \in DOMAIN Actions : Actions[i] = action
    THEN CHOOSE i \in DOMAIN Actions : Actions[i] = action
    ELSE 1

\* up_daemon_get_critical_action(), a method call, and up_backend_take_action().
BeginSearch(asker) ==
  /\ logind_asker = "nobody" /\ logind_asker' = asker
  /\ logind_i' = StartOfSearch(logind_config)
  /\ logind_yes' = {} /\ logind_refused' = {}
  /\ UNCHANGED <<logind_can, logind_config, logind_result>>

\* One turn of the loop of up_backend_get_critical_action().  When it is done for
\* up_backend_take_action() the method is called, without waiting for its result;
\* the end of the table is never passed.
SearchStep ==
  LET method == Actions[logind_i]
      said_yes == method \notin Unasked /\ logind_can[method] = "yes"
      available == method \in Unasked \/ CheckActionResult(logind_can[method])
  IN  /\ logind_asker # "nobody"
      /\ logind_yes' = IF said_yes THEN logind_yes \cup {method} ELSE logind_yes
      /\ logind_refused' = IF available THEN logind_refused ELSE logind_refused \cup {method}
      /\ IF available
           THEN /\ logind_result' = [asker |-> logind_asker, method |-> method]
                /\ logind_asker' = "nobody" /\ logind_i' = 1
           ELSE /\ logind_i' = logind_i + 1 /\ UNCHANGED <<logind_result, logind_asker>>
      /\ UNCHANGED <<logind_can, logind_config>>

\* logind changes its mind.
LogindChanges ==
  /\ \E method \in DOMAIN logind_can, answer \in CanAnswers :
       logind_can' = [logind_can EXCEPT ![method] = answer]
  /\ logind_can' # logind_can
  /\ UNCHANGED <<logind_config, logind_asker, logind_i, logind_yes, logind_refused,
                 logind_result>>

LogindInit ==
  /\ logind_can = [method \in {"HybridSleep", "Hibernate"} |-> "na"]
  /\ logind_config \in ConfigFiles
  /\ logind_asker = "nobody" /\ logind_i = 1
  /\ logind_yes = {} /\ logind_refused = {}
  /\ logind_result = [asker |-> "nobody", method |-> "none"]

LogindNext ==
  \/ \E asker \in {"client", "take_action"} : BeginSearch(asker)
  \/ SearchStep
  \/ LogindChanges

LogindSpec == LogindInit /\ [][LogindNext]_logindVars
-----------------------------------------------------------------------------
LogindTypeOK ==
  /\ logind_can \in [{"HybridSleep", "Hibernate"} -> CanAnswers]
  /\ logind_config \in ConfigFiles
  /\ logind_asker \in {"nobody", "client", "take_action"}
  /\ logind_i \in DOMAIN Actions
  /\ logind_yes \subseteq {"HybridSleep", "Hibernate"}
  /\ logind_refused \subseteq {"HybridSleep", "Hibernate"}
  /\ logind_result \in [asker : {"nobody", "client", "take_action"},
                        method : {Actions[i] : i \in DOMAIN Actions} \cup {"none"}]

\* However logind's answers change in between, the search ends with a method that
\* logind allowed when it was asked, or with PowerOff; each one before it, from the
\* configured one on, was refused; and what is milder than the configuration asks
\* for is never taken.
ActionIsAllowed ==
  [][logind_result' # logind_result =>
       LET method == logind_result'.method
           from == StartOfSearch(logind_config)
           at == StartOfSearch(method)
       IN  /\ method = "PowerOff" \/ method \in logind_yes'
           /\ from <= at
           /\ \A i \in from..(at - 1) : Actions[i] \in logind_refused']_logindVars
=============================================================================
