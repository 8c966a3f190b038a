----------------------------- MODULE Mystery27 ------------------------------
(***************************************************************************)
(* The bank of bookcode/mystery27.cc: worker threads that post deposits    *)
(* and withdrawals to accounts and to the bank's total, and a dashboard    *)
(* thread that shows all of them, over four locks of which each kind of    *)
(* work takes some.                                                        *)
(*                                                                         *)
(* The locks are those of Mutex2, here with what Mutex2 promises: at most  *)
(* one owner, and that a thread which waits on a lock is woken when it is  *)
(* free, but for a store of 0 delayed past the test of waiters.            *)
(* balance += amount is a load and a store.  The counts of                 *)
(* deposits and withdrawals are kept in the same way as the balances and   *)
(* left out; fake work and waiting are steps that take no time.            *)
(***************************************************************************)
EXTENDS Integers, Sequences, Functions

CONSTANTS
    Workers,      \* the worker threads: 3 in the code
    Dashboard,    \* the dashboard thread
    Nobody,       \* the owner of a free lock
    LastAccount,  \* accounts are numbered from 0: MAX_ACCOUNTS - 1
    Amounts,      \* what a deposit or withdrawal changes a balance by
    WORKER_ITER, DASHBOARD_ITER  \* actions of a worker, pages of the dashboard

ASSUME ThreadsAssumption == Dashboard \notin Workers /\ Nobody \notin Workers \cup {Dashboard}
ASSUME InputsAssumption == LastAccount \in Nat /\ Amounts \subseteq Int
                          /\ WORKER_ITER \in Nat /\ DASHBOARD_ITER \in Nat

Threads == Workers \cup {Dashboard}
Accounts == 0 .. LastAccount
Locks == {"readerlock", "writerlock"} \X {0, 1}

VARIABLES
    opt,       \* what the command line chose
    owner,     \* of each lock
    asleep,    \* threads that sleep on a lock freed by a delayed store
    accounts,  \* balances
    bankbalance,
    phase,     \* where each thread is in its action or dashboard
    job,       \* its Action, or Show
    taken,     \* how many of its locks it has
    seen,      \* the balance it has loaded
    left,      \* iterations to go
    page,      \* the balances the dashboard has read, in order of account
    posted     \* history: the amounts posted to each account, added up

books == <<accounts, bankbalance, posted>>
bankvars == <<opt, owner, asleep, books, phase, job, taken, seen, left, page>>

(* Deposit, Getcash and Debitcard are updates; a Balance has no amount.    *)
Update == [type : {"update"}, account : Accounts, amount : Amounts]
Balance == [type : {"Balance"}, account : Accounts, amount : {0}]
Show == [type |-> "dashboard", account |-> 0, amount |-> 0]

(* Any combination of -multilock, -nolockbal and -dash0; -dash1 to -dash3  *)
(* take the same locks and differ in what they do beside reading.          *)
Options == [lockmod : {0, 1}, lockbal : BOOLEAN, dashlocks : BOOLEAN]

BankInit ==
    /\ opt \in Options
    /\ owner = [l \in Locks |-> Nobody] /\ asleep = {}
    /\ accounts = [a \in Accounts |-> 0] /\ bankbalance = 0
    /\ posted = [a \in Accounts |-> 0]
    /\ phase = [t \in Threads |-> "idle"]
    /\ job = [t \in Threads |-> Show]
    /\ taken = [t \in Threads |-> 0]
    /\ seen = [t \in Threads |-> 0]
    /\ left = [t \in Threads |-> IF t = Dashboard THEN DASHBOARD_ITER ELSE WORKER_ITER]
    /\ page = <<>>

SetPhase(t, p) == phase' = [phase EXCEPT ![t] = p]

(***************************************************************************)
(* Locks.  The Mutex2 objects of a block are constructed in order and      *)
(* destroyed in the opposite one.                                          *)
(***************************************************************************)

(* Mutant: the low bit is used without -multilock as well.                 *)
locknum_Always(j, o) == j.account % 2

(* action->account & lockmod.                                              *)
locknum(j, o) == IF o.lockmod = 0 THEN 0 ELSE j.account % 2

reader(n) == <<"readerlock", n>>
writer(n) == <<"writerlock", n>>

(* Mutant: the dashboard starts with the writer locks.                     *)
Order_WritersFirst(j, o) ==
    CASE j.type = "dashboard" /\ o.dashlocks -> <<writer(0), writer(1), reader(0), reader(1)>>
      [] j.type = "update" -> <<reader(locknum(j, o)), writer(locknum(j, o))>>
      [] j.type = "Balance" /\ o.lockbal -> <<reader(locknum(j, o))>>
      [] OTHER -> <<>>

(* The locks that work j takes under options o, in order.                  *)
Order(j, o) ==
    CASE j.type = "dashboard" /\ o.dashlocks -> <<reader(0), reader(1), writer(0), writer(1)>>
      [] j.type = "update" -> <<reader(locknum(j, o)), writer(locknum(j, o))>>
      [] j.type = "Balance" /\ o.lockbal -> <<reader(locknum(j, o))>>
      [] OTHER -> <<>>

NextLock(t) == Order(job[t], opt)[taken[t] + 1]

(* The threads that are trying to get lock l.                              *)
Waiting(l) ==
    {t \in Threads : /\ phase[t] = "acquire" /\ taken[t] < Len(Order(job[t], opt))
                     /\ NextLock(t) = l}

(* A thread that is awake gets a free lock, by one try or another.         *)
Acquire(t) ==
    /\ phase[t] = "acquire" /\ taken[t] < Len(Order(job[t], opt))
    /\ t \notin asleep
    /\ owner[NextLock(t)] = Nobody
    /\ owner' = [owner EXCEPT ![NextLock(t)] = t]
    /\ taken' = [taken EXCEPT ![t] = @ + 1]
    /\ UNCHANGED <<opt, asleep, books, phase, job, seen, left, page>>

(* The thread has all the locks its work takes.                            *)
Inside(t) == phase[t] = "acquire" /\ taken[t] = Len(Order(job[t], opt))

(* Releaselock: the threads that wait are woken; or none of them had been  *)
(* counted when waiters was tested, and some counted themselves and went   *)
(* to sleep before the store of 0 became visible.  A thread asleep since   *)
(* an earlier release is counted.                                          *)
Release(t) ==
    /\ phase[t] = "release" /\ taken[t] > 0
    /\ LET l == Order(job[t], opt)[taken[t]] IN
          /\ owner' = [owner EXCEPT ![l] = Nobody]
          /\ \/ asleep' = asleep \ Waiting(l)
             \/ /\ asleep \cap Waiting(l) = {}
                /\ \E S \in SUBSET Waiting(l) : asleep' = asleep \cup S
    /\ taken' = [taken EXCEPT ![t] = @ - 1]
    /\ UNCHANGED <<opt, books, phase, job, seen, left, page>>

(* The end of an iteration, with it of its local variables.                *)
EndIteration(t) ==
    /\ phase[t] = "release" /\ taken[t] = 0
    /\ SetPhase(t, "idle")
    /\ left' = [left EXCEPT ![t] = @ - 1]
    /\ job' = [job EXCEPT ![t] = Show]
    /\ seen' = [seen EXCEPT ![t] = 0]
    /\ UNCHANGED <<opt, owner, asleep, books, taken, page>>

(***************************************************************************)
(* worker_thread                                                           *)
(***************************************************************************)

MakeAction(t) ==
    /\ phase[t] = "idle" /\ left[t] > 0
    /\ \E j \in Update \cup Balance : job' = [job EXCEPT ![t] = j]
    /\ SetPhase(t, "acquire")
    /\ UNCHANGED <<opt, owner, asleep, books, taken, seen, left, page>>

(* Mutant: the balance is read before the locks are taken.                 *)
LoadAccount_Early(t) ==
    /\ phase[t] = "acquire" /\ job[t].type = "update"
    /\ seen' = [seen EXCEPT ![t] = accounts[job[t].account]]
    /\ SetPhase(t, "account")
    /\ UNCHANGED <<opt, owner, asleep, books, job, taken, left, page>>

(* Update(&db->accounts[action->account], action->amount): loads           *)
LoadAccount(t) ==
    /\ Inside(t) /\ job[t].type = "update"
    /\ seen' = [seen EXCEPT ![t] = accounts[job[t].account]]
    /\ SetPhase(t, "account")
    /\ UNCHANGED <<opt, owner, asleep, books, job, taken, left, page>>

(* and stores.                                                             *)
StoreAccount(t) ==
    /\ phase[t] = "account"
    /\ accounts' = [accounts EXCEPT ![job[t].account] = seen[t] + job[t].amount]
    /\ posted' = [posted EXCEPT ![job[t].account] = @ + job[t].amount]
    /\ SetPhase(t, "bank")
    /\ UNCHANGED <<opt, owner, asleep, bankbalance, job, taken, seen, left, page>>

(* Update(&db->bankbalance, action->amount).                               *)
LoadBank(t) ==
    /\ phase[t] = "bank"
    /\ seen' = [seen EXCEPT ![t] = bankbalance]
    /\ SetPhase(t, "total")
    /\ UNCHANGED <<opt, owner, asleep, books, job, taken, left, page>>

StoreBank(t) ==
    /\ phase[t] = "total"
    /\ bankbalance' = seen[t] + job[t].amount
    /\ SetPhase(t, "release")
    /\ UNCHANGED <<opt, owner, asleep, accounts, posted, job, taken, seen, left, page>>

(* The balance is read and ignored.                                        *)
ReadBalance(t) ==
    /\ Inside(t) /\ job[t].type = "Balance"
    /\ SetPhase(t, "release")
    /\ UNCHANGED <<opt, owner, asleep, books, job, taken, seen, left, page>>

(***************************************************************************)
(* dashboard_thread                                                        *)
(***************************************************************************)

StartDashboard ==
    /\ phase[Dashboard] = "idle" /\ left[Dashboard] > 0
    /\ SetPhase(Dashboard, "acquire")
    /\ UNCHANGED <<opt, owner, asleep, books, job, taken, seen, left, page>>

(* Mutant: reading starts before all locks are taken.                      *)
ReadAccount_Early ==
    /\ phase[Dashboard] = "acquire" /\ Len(page) <= LastAccount
    /\ page' = Append(page, accounts[Len(page)])
    /\ UNCHANGED <<opt, owner, asleep, books, phase, job, taken, seen, left>>

(* BuildDashboardString reads the accounts one after the other; with       *)
(* -dash3 it reads a copy of the database that was made under the locks.   *)
ReadAccount ==
    /\ Inside(Dashboard) /\ Len(page) <= LastAccount
    /\ page' = Append(page, accounts[Len(page)])
    /\ UNCHANGED <<opt, owner, asleep, books, phase, job, taken, seen, left>>

(* The page is printed.                                                    *)
ShowPage ==
    /\ Inside(Dashboard) /\ Len(page) = LastAccount + 1
    /\ SetPhase(Dashboard, "release")
    /\ page' = <<>>
    /\ UNCHANGED <<opt, owner, asleep, books, job, taken, seen, left>>

-----------------------------------------------------------------------------

Worker(t) ==
    \/ MakeAction(t) \/ LoadAccount(t) \/ StoreAccount(t) \/ LoadBank(t)
    \/ StoreBank(t) \/ ReadBalance(t)
    \/ Acquire(t) \/ Release(t) \/ EndIteration(t)

DashboardThread ==
    \/ StartDashboard \/ ReadAccount \/ ShowPage
    \/ Acquire(Dashboard) \/ Release(Dashboard) \/ EndIteration(Dashboard)

BankNext == (\E t \in Workers : Worker(t)) \/ DashboardThread

BankSpec == BankInit /\ [][BankNext]_bankvars

(* A thread that can go on goes on; a lock that is free again and again    *)
(* need not be given to any one thread, and one asleep need not wake.      *)
FairBankSpec ==
    BankSpec /\ WF_bankvars(DashboardThread) /\ \A t \in Workers : WF_bankvars(Worker(t))

-----------------------------------------------------------------------------

Updating == {"account", "bank", "total"}

(* Type invariant.                                                         *)
BankTypeOK ==
    /\ opt \in Options
    /\ owner \in [Locks -> Threads \cup {Nobody}]
    /\ asleep \subseteq Threads
    /\ accounts \in [Accounts -> Int] /\ bankbalance \in Int
    /\ posted \in [Accounts -> Int]
    /\ phase \in [Threads -> {"idle", "acquire", "release"} \cup Updating]
    /\ job \in [Threads -> Update \cup Balance \cup {Show}]
    /\ taken \in [Threads -> 0..4]
    /\ seen \in [Threads -> Int]
    /\ left \in [Threads -> Nat]
    /\ page \in Seq(Int)

(* No posting to an account is lost, whichever locks -multilock makes the  *)
(* workers take: two updates of one account never overlap.                 *)
NothingLost == accounts = posted

(* The dashboard, when it takes locks, shows the accounts as they are at   *)
(* one moment: no account changes between the first it reads and the time  *)
(* it lets go of the locks.                                                *)
PageTrue ==
    taken[Dashboard] = 4 =>
        \A i \in 1 .. Len(page) : page[i] = accounts[i - 1]

(* With one pair of locks the bank's total is the sum of the accounts      *)
(* whenever a thread has both: a dashboard would show books that balance.  *)
(* (With -multilock two workers with different locks update the total.)    *)
BooksBalance ==
    opt.lockmod = 0 /\ taken[Dashboard] = 4 =>
        bankbalance = SumFunction(accounts)

(* All threads finish and main's pthread_join calls return, or a thread    *)
(* that a delayed store left asleep on a free lock is never woken again:   *)
(* no set of threads waits for one another's locks.                        *)
ThreadsFinish ==
    \/ <>(\A t \in Threads : phase[t] = "idle" /\ left[t] = 0)
    \/ <>[](asleep # {})
=============================================================================
