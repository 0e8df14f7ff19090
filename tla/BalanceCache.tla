---------------------------- MODULE BalanceCache ----------------------------
(***************************************************************************)
(* WalletService.GetBalance over the read-through cache in Redis, beside   *)
(* the transactions that change the account.  A balance is stood for by    *)
(* the number of transactions it includes.  InvalidateAccountBalance is    *)
(* implemented in the cache and in the repository and called by nobody, so *)
(* it is no action; an entry goes when its 5 minutes are over.             *)
(***************************************************************************)
EXTENDS Naturals

CONSTANTS
    Readers,
    NoEntry,
    MaxVersion      \* bound: transactions on the account

ASSUME CacheAssumption == MaxVersion \in Nat /\ NoEntry \notin Nat

Versions == 0..MaxVersion

VARIABLES
    version,    \* accounts.balance
    cache,      \* the entry of the account in Redis
    rpc,        \* where each GetBalance is
    atStart,    \* the balance when it was called
    read,       \* the balance it found in the database
    served      \* the balance it answered

bvars == <<version, cache, rpc, atStart, read, served>>

BTypeOK ==
    /\ version \in Versions
    /\ cache \in Versions \cup {NoEntry}
    /\ rpc \in [Readers -> {"idle", "find", "get", "set", "done"}]
    /\ {atStart, read, served} \subseteq [Readers -> Versions]

BInit ==
    /\ version = 0
    /\ cache = NoEntry
    /\ rpc = [r \in Readers |-> "idle"]
    /\ atStart = [r \in Readers |-> 0]
    /\ read = [r \in Readers |-> 0]
    /\ served = [r \in Readers |-> 0]

Goto(r, s) == rpc' = [rpc EXCEPT ![r] = s]

(* A handler commits a new balance; the cache is not told. *)
CommitBalance ==
    /\ version < MaxVersion
    /\ version' = version + 1
    /\ UNCHANGED <<cache, rpc, atStart, read, served>>

Call(r) ==
    /\ rpc[r] \in {"idle", "done"}
    /\ atStart' = [atStart EXCEPT ![r] = version]
    /\ Goto(r, "find")
    /\ UNCHANGED <<version, cache, read, served>>

(* FindAccountById, in checkUserAccountCompatibility *)
FindAccount(r) ==
    /\ rpc[r] = "find"
    /\ read' = [read EXCEPT ![r] = version]
    /\ Goto(r, "get")
    /\ UNCHANGED <<version, cache, atStart, served>>

Serve(r, v) ==
    /\ served' = [served EXCEPT ![r] = v]
    /\ Goto(r, "done")

GetEntry(r) ==
    /\ rpc[r] = "get"
    /\ \/ cache # NoEntry /\ Serve(r, cache)
       \/ cache = NoEntry /\ Goto(r, "set") /\ UNCHANGED served
    /\ UNCHANGED <<version, cache, atStart, read>>

SetEntry(r) ==
    /\ rpc[r] = "set"
    /\ cache' = read[r]
    /\ Serve(r, read[r])
    /\ UNCHANGED <<version, atStart, read>>

(* Redis fails in either call: the balance of the database is answered. *)
CacheError(r) ==
    /\ rpc[r] \in {"get", "set"}
    /\ Serve(r, read[r])
    /\ UNCHANGED <<version, cache, atStart, read>>

(* Mutant: the entry is stored without a TTL. *)
NeverExpire == FALSE /\ UNCHANGED bvars

Expire ==
    /\ cache # NoEntry
    /\ cache' = NoEntry
    /\ UNCHANGED <<version, rpc, atStart, read, served>>

GetBalance(r) == FindAccount(r) \/ GetEntry(r) \/ SetEntry(r)

BNext ==
    \/ CommitBalance
    \/ Expire
    \/ \E r \in Readers : Call(r) \/ GetBalance(r) \/ CacheError(r)

BSpec == BInit /\ [][BNext]_bvars

(* Calls run to their end and the TTL passes. *)
BFairness ==
    /\ WF_bvars(Expire)
    /\ \A r \in Readers : WF_bvars(GetBalance(r))

BFairSpec == BSpec /\ BFairness

-----------------------------------------------------------------------------

(* A call answers no balance older than the one at its start. *)
NoStaleBalance ==
    \A r \in Readers : rpc[r] = "done" => served[r] >= atStart[r]

(* An old balance does not live for ever: although a slow call may put back
   a balance it read before the last transaction, once the transactions stop
   the cache holds the current balance or nothing. *)
CacheConverges == <>[](cache \in {version, NoEntry})

=============================================================================
