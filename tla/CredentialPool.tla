---------------------------- MODULE CredentialPool ----------------------------
(***************************************************************************)
(* Official accounts and the credentials a pool makes of them              *)
(* (internal/op/official_account.go, official_pool.go, channel_key_state.go*)
(* and the credentials of channel.go): an account is authorised, its usage *)
(* read, its tokens refreshed; a synchronisation turns every account into  *)
(* one credential of the pool's channel; the operator switches credentials *)
(* by hand; requests use the cached copy.                                  *)
(*                                                                         *)
(* A token is the number of the exchange or refresh that issued it.  Each  *)
(* request of the operator is a process: what it reads, asks the provider  *)
(* and writes are steps of their own.                                      *)
(***************************************************************************)
EXTENDS Naturals, FiniteSets

CONSTANTS
    Account,      \* accounts of one provider, each with a name of its own
    Operator,     \* requests of the panel that may be under way at once
    MaxToken,     \* bound on the tokens of an account
    MaxRestart    \* bound on restarts

ASSUME PoolAssumption == IsFiniteSet(Account) /\ {MaxToken, MaxRestart} \subseteq Nat

VARIABLES
    account,      \* rows of official_accounts
    ticket,       \* officialStates: accounts with an unused state
    issued,       \* the provider's side: the last token it gave out
    key,          \* rows of channel_keys, by the account they are named for
    served,       \* the cached credentials
    word,         \* history: the operator's last word on a credential
    job,          \* what each operator's request is doing
    failed,       \* a write has failed since the caches were loaded
    restarts

poolVars == <<account, ticket, issued, key, served, word, job, failed, restarts>>

NoKey == [there |-> FALSE, enabled |-> FALSE, held |-> FALSE, token |-> 0]
NoAccount == [status |-> "none", token |-> 0, due |-> FALSE]
Exists(a) == account[a].status \in {"pending", "active", "error"}
NoJob == [at |-> "idle", of |-> {}, todo |-> {}, seen |-> [a \in Account |-> NoAccount],
          keys |-> [a \in Account |-> NoKey], fresh |-> 0, notes |-> {}]

Start(p, place, a) ==
    /\ job[p].at = "idle"
    /\ job' = [job EXCEPT ![p] = [NoJob EXCEPT !.at = place, !.of = {a}]]
Goto(p, place) == job' = [job EXCEPT ![p].at = place]
Quit(p) == job' = [job EXCEPT ![p] = NoJob]

-----------------------------------------------------------------------------
(* Authorisation.                                                          *)

OfficialAccountAuthorize(p, a) ==
    /\ job[p].at = "idle" /\ account[a].status = "none"
    /\ account' = [account EXCEPT ![a].status = "pending"]
    /\ ticket' = ticket \cup {a}
    /\ UNCHANGED <<issued, key, served, word, job, failed, restarts>>

(* consumeOfficialState takes the state whatever comes of it. *)
OfficialAccountCallback(p, a) ==
    /\ a \in ticket
    /\ ticket' = ticket \ {a}
    /\ Start(p, "exchange", a)
    /\ UNCHANGED <<account, issued, key, served, word, failed, restarts>>

ForgetState(a) ==
    /\ a \in ticket
    /\ ticket' = ticket \ {a}
    /\ UNCHANGED <<account, issued, key, served, word, job, failed, restarts>>

Exchange(p) ==
    /\ job[p].at = "exchange"
    /\ \E a \in job[p].of :
          \/ /\ issued[a] < MaxToken
             /\ issued' = [issued EXCEPT ![a] = @ + 1]
             /\ account' = IF Exists(a)
                           THEN [account EXCEPT ![a] =
                                    [status |-> "active", token |-> issued[a] + 1, due |-> FALSE]]
                           ELSE account
          \/ UNCHANGED <<account, issued>>
    /\ Quit(p)
    /\ UNCHANGED <<ticket, key, served, word, failed, restarts>>

-----------------------------------------------------------------------------
(* Usage, expiry and removal of an account.                                *)

(* A reading that fails puts the account out of service. *)
OfficialAccountReadUsage(p, a) ==
    /\ account[a].status = "active"
    /\ Start(p, "read usage", a)
    /\ UNCHANGED <<account, ticket, issued, key, served, word, failed, restarts>>

UsageFailed(p) ==
    /\ job[p].at = "read usage"
    /\ account' = [a \in Account |->
            IF a \in job[p].of /\ Exists(a)
            THEN [account[a] EXCEPT !.status = "error"] ELSE account[a]]
    /\ Quit(p)
    /\ UNCHANGED <<ticket, issued, key, served, word, failed, restarts>>

UsageRead(p) ==
    /\ job[p].at = "read usage"
    /\ Quit(p)
    /\ UNCHANGED <<account, ticket, issued, key, served, word, failed, restarts>>

FallDue(a) ==
    /\ account[a].status = "active" /\ ~account[a].due
    /\ account' = [account EXCEPT ![a].due = TRUE]
    /\ UNCHANGED <<ticket, issued, key, served, word, job, failed, restarts>>

(* The account and its credential go in one transaction; the caches are    *)
(* left to the caller, which does nothing.                                 *)
KeyHalfDropped(a) == [key EXCEPT ![a].there = FALSE]   \* mutant: its fields stay
KeyDropped(a) == [key EXCEPT ![a] = NoKey]

OfficialAccountDelete(p, a) ==
    /\ job[p].at = "idle" /\ Exists(a)
    /\ account' = [account EXCEPT ![a] = [NoAccount EXCEPT !.status = "deleted"]]
    /\ key' = KeyDropped(a)
    /\ word' = [word EXCEPT ![a] = "none"]
    /\ UNCHANGED <<ticket, issued, served, job, failed, restarts>>

-----------------------------------------------------------------------------
(* The operator's switch.                                                  *)

(* SetChannelKeyEnabled: the switch leaves its reason on the row. *)
SetChannelKeyEnabled(p, a, on) ==
    /\ key[a].there
    /\ word' = [word EXCEPT ![a] = IF on THEN "on" ELSE "off"]
    /\ IF key[a].enabled = on /\ key[a].held = ~on
       THEN job[p].at = "idle" /\ UNCHANGED <<key, job>>
       ELSE /\ key' = [key EXCEPT ![a].enabled = on, ![a].held = ~on]
            /\ Start(p, "refresh", a)
    /\ UNCHANGED <<account, ticket, issued, served, failed, restarts>>

(* syncChannelKeys in a ChannelUpdate: a row that the form changes, if     *)
(* only its proxy, is written with the reason of its switch; one the form  *)
(* leaves out goes.                                                        *)
SaveChannelKeys(p, a) ==
    /\ key[a].there
    /\ \/ \E on \in BOOLEAN :
             /\ key' = [key EXCEPT ![a].enabled = on, ![a].held = ~on]
             /\ word' = [word EXCEPT ![a] = IF on THEN "on" ELSE "off"]
       \/ /\ key' = [key EXCEPT ![a] = NoKey]
          /\ word' = [word EXCEPT ![a] = "none"]
    /\ Start(p, "refresh", a)
    /\ UNCHANGED <<account, ticket, issued, served, failed, restarts>>

-----------------------------------------------------------------------------
(* OfficialPoolSync.                                                       *)

OfficialPoolSync(p) ==
    /\ job[p].at = "idle" /\ \E a \in Account : Exists(a)
    /\ job' = [job EXCEPT ![p] =
            [NoJob EXCEPT !.at = "sync", !.seen = account, !.keys = key,
                          !.todo = {a \in Account : Exists(a)}]]
    /\ UNCHANGED <<account, ticket, issued, key, served, word, failed, restarts>>

(* The next account.  The rows were read at the start: an account out of   *)
(* service has its credential switched off, one that is due is refreshed.  *)
SyncNext(p, a) ==
    /\ job[p].at = "sync" /\ a \in job[p].todo
    /\ LET seen == job[p].seen[a]
           old == job[p].keys[a]
       IN IF seen.status # "active"
          THEN /\ key' = IF old.there /\ old.enabled /\ key[a].there
                         THEN [key EXCEPT ![a].enabled = FALSE] ELSE key
               /\ job' = [job EXCEPT ![p].todo = @ \ {a}]
          ELSE /\ job' = [job EXCEPT ![p].at = IF seen.due THEN "refresh token" ELSE "write key",
                                     ![p].of = {a}]
               /\ UNCHANGED key
    /\ UNCHANGED <<account, ticket, issued, served, word, failed, restarts>>

(* officialPoolRefreshIfNeeded: the provider rotates the token, then the   *)
(* account is updated.                                                     *)
RefreshToken(p) ==
    /\ job[p].at = "refresh token"
    /\ \E a \in job[p].of :
          \/ /\ issued[a] < MaxToken
             /\ issued' = [issued EXCEPT ![a] = @ + 1]
             /\ job' = [job EXCEPT ![p].at = "persist token", ![p].fresh = issued[a] + 1]
          \/ /\ job' = [job EXCEPT ![p].at = "write key"]
             /\ UNCHANGED issued
    /\ UNCHANGED <<account, ticket, key, served, word, failed, restarts>>

OldTokenKept(p, a) == job[p].seen[a].token       \* mutant: the sync goes on with the row it read
TokenAfter(p, a) == IF Exists(a) THEN job[p].fresh ELSE job[p].seen[a].token

PersistToken(p) ==
    /\ job[p].at = "persist token"
    /\ \E a \in job[p].of :
          /\ account' = IF Exists(a)
                        THEN [account EXCEPT ![a] =
                                [status |-> "active", token |-> job[p].fresh, due |-> FALSE]]
                        ELSE account
          /\ job' = [job EXCEPT ![p].at = "write key", ![p].fresh = 0,
                                ![p].seen[a].token = TokenAfter(p, a)]
    /\ UNCHANGED <<ticket, issued, key, served, word, failed, restarts>>

(* The row is not written: the rotated token is lost, the old one is used. *)
PersistFails(p) ==
    /\ job[p].at = "persist token"
    /\ job' = [job EXCEPT ![p].at = "write key", ![p].fresh = 0]
    /\ UNCHANGED <<account, ticket, issued, key, served, word, failed, restarts>>

(* The credential takes the token; it is switched on unless the operator   *)
(* holds it, or made.  An account whose token cannot be read is noted.     *)
Reopened(old) == ~old.enabled                    \* mutant: the operator is not asked
Opens(old) == ~old.held /\ ~old.enabled

WriteKey(p) ==
    /\ job[p].at = "write key"
    /\ \E a \in job[p].of :
       LET old == job[p].keys[a]
           new == [key[a] EXCEPT !.token = job[p].seen[a].token,
                                 !.enabled = @ \/ Opens(old)]
           made == [there |-> TRUE, enabled |-> TRUE, held |-> FALSE,
                    token |-> job[p].seen[a].token]
       IN \/ /\ key' = IF ~old.there /\ ~key[a].there THEN [key EXCEPT ![a] = made]
                       ELSE IF old.there /\ key[a].there THEN [key EXCEPT ![a] = new]
                       ELSE key
             /\ job' = [job EXCEPT ![p].at = "sync", ![p].of = {}, ![p].todo = @ \ {a}]
          \/ /\ job' = [job EXCEPT ![p].at = "sync", ![p].of = {}, ![p].todo = @ \ {a},
                                   ![p].notes = @ \cup {a}]
             /\ UNCHANGED key
    /\ UNCHANGED <<account, ticket, issued, served, word, failed, restarts>>

(* A write fails: the synchronisation ends where it is, without a reload.  *)
SyncFails(p) ==
    /\ job[p].at \in {"sync", "write key"} /\ job[p].todo # {}
    /\ failed' = TRUE
    /\ Quit(p)
    /\ UNCHANGED <<account, ticket, issued, key, served, word, restarts>>

SyncDone(p) ==
    /\ job[p].at = "sync" /\ job[p].todo = {}
    /\ Goto(p, "refresh")
    /\ UNCHANGED <<account, ticket, issued, key, served, word, failed, restarts>>

(* channelRefreshCache: the rows are read, then the cache is replaced.     *)
ReadRows(p) ==
    /\ job[p].at = "refresh"
    /\ job' = [job EXCEPT ![p].at = "install", ![p].keys = key]
    /\ UNCHANGED <<account, ticket, issued, key, served, word, failed, restarts>>

InstallNothing(p) == served                      \* mutant: the cache is left alone
Installed(p) == job[p].keys

Install(p) ==
    /\ job[p].at = "install"
    /\ served' = Installed(p)
    /\ failed' = FALSE
    /\ Quit(p)
    /\ UNCHANGED <<account, ticket, issued, key, word, restarts>>

(* The process ends; the next one loads the rows, states are forgotten.    *)
RestartPool ==
    /\ restarts < MaxRestart
    /\ restarts' = restarts + 1
    /\ ticket' = {}
    /\ served' = key
    /\ job' = [p \in Operator |-> NoJob]
    /\ failed' = FALSE
    /\ UNCHANGED <<account, issued, key, word>>

-----------------------------------------------------------------------------
PoolInit ==
    /\ account = [a \in Account |-> NoAccount]
    /\ ticket = {}
    /\ issued = [a \in Account |-> 0]
    /\ key = [a \in Account |-> NoKey]
    /\ served = key
    /\ word = [a \in Account |-> "none"]
    /\ job = [p \in Operator |-> NoJob]
    /\ failed = FALSE
    /\ restarts = 0

Request(p) ==
    \/ \E a \in Account :
          \/ OfficialAccountAuthorize(p, a) \/ OfficialAccountCallback(p, a)
          \/ OfficialAccountReadUsage(p, a) \/ OfficialAccountDelete(p, a)
          \/ \E on \in BOOLEAN : SetChannelKeyEnabled(p, a, on)
          \/ SaveChannelKeys(p, a) \/ SyncNext(p, a)
    \/ Exchange(p) \/ UsageRead(p) \/ UsageFailed(p)
    \/ OfficialPoolSync(p) \/ RefreshToken(p) \/ PersistToken(p) \/ PersistFails(p)
    \/ WriteKey(p) \/ SyncFails(p) \/ SyncDone(p) \/ ReadRows(p) \/ Install(p)

PoolNext ==
    \/ \E p \in Operator : Request(p)
    \/ \E a \in Account : ForgetState(a) \/ FallDue(a)
    \/ RestartPool

PoolSpec == PoolInit /\ [][PoolNext]_poolVars

-----------------------------------------------------------------------------
(* Properties.                                                             *)

Row == [there : BOOLEAN, enabled : BOOLEAN, held : BOOLEAN, token : 0..MaxToken]
AccountRow == [status : {"none", "pending", "active", "error", "deleted"}, token : 0..MaxToken, due : BOOLEAN]

(* Every variable has its shape; a credential that is gone left nothing.   *)
PoolTypeOK ==
    /\ account \in [Account -> AccountRow]
    /\ ticket \subseteq Account
    /\ issued \in [Account -> 0..MaxToken]
    /\ key \in [Account -> Row] /\ served \in [Account -> Row]
    /\ \A a \in Account : ~key[a].there => key[a] = NoKey
    /\ word \in [Account -> {"none", "on", "off"}]
    /\ job \in [Operator -> [at : {"idle", "exchange", "read usage", "sync", "refresh token",
                                   "persist token", "write key", "refresh", "install"},
                             of : SUBSET Account, todo : SUBSET Account,
                             seen : [Account -> AccountRow], keys : [Account -> Row], fresh : 0..MaxToken,
                             notes : SUBSET Account]]
    /\ failed \in BOOLEAN /\ restarts \in 0..MaxRestart

(* A credential the operator switched off stays off, whatever becomes of   *)
(* its account and however often the pool is synchronised, until the       *)
(* operator switches it on again.                                          *)
OperatorsWordHolds == \A a \in Account : word[a] = "off" => ~key[a].enabled

(* A synchronisation that comes to its end leaves every account it could   *)
(* read with its credential as it should be: on with the account's own     *)
(* token, off for an account out of service or for the operator.           *)
SyncConverges ==
    [][\A p \in Operator : SyncDone(p) =>
          \A a \in Account \ job[p].notes :
             /\ account[a].status = "active" =>
                    key[a].there /\ key[a].token = account[a].token /\ key[a].enabled = ~key[a].held
             /\ account[a].status \in {"pending", "error"} => ~key[a].enabled]_poolVars

(* When nothing is under way and nothing failed, requests are served with  *)
(* the credentials as they are stored.                                     *)
ServedAsStored ==
    (~failed /\ \A p \in Operator : job[p].at = "idle") =>
        \A a \in Account : account[a].status # "deleted" => served[a] = key[a]

(* A credential goes with its account: no request is served with one whose *)
(* account was deleted.                                                    *)
DeletedAccountsAreNotServed ==
    \A a \in Account : served[a].enabled /\ (\A p \in Operator : job[p].at = "idle") =>
        account[a].status # "deleted"
=============================================================================
