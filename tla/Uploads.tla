------------------------------- MODULE Uploads -------------------------------
(***************************************************************************)
(* The files of one user on an object store (UploadController,             *)
(* PendingUploads, AssetsController, AssetRepository): upload/init hands   *)
(* out a key, the browser puts the object there, upload/finalize checks it *)
(* and registers it.  upload/direct stores and registers in one request.   *)
(* A request looks at the quota in one step and inserts in a later one;    *)
(* requests overlap.                                                       *)
(***************************************************************************)
EXTENDS Naturals, FiniteSets, FiniteSetsExt

CONSTANTS
    Keys,      \* object keys, each minted once
    Requests,  \* uploads the server works on at the same time
    MaxSize,   \* max_size_for(); sizes are 1..MaxSize
    Quota      \* user_quota_bytes(), 0 for none

ASSUME UploadsAssumption ==
    /\ IsFiniteSet(Keys) /\ IsFiniteSet(Requests) /\ Requests # {}
    /\ MaxSize \in Nat \ {0} /\ Quota \in Nat

VARIABLES
    minted,   \* the keys handed out
    pending,  \* PendingUploads: the size declared for a key, 0 without a record
    object,   \* the store: the size under each key, 0 when there is nothing
    assets,   \* the table: how many rows a key has, and the size they state
    request,  \* what each request has checked already
    dropping  \* keys whose row is gone and whose object goes next

uploadVars == <<minted, pending, object, assets, request, dropping>>

Sizes == 1..MaxSize
Free == [at |-> "free", key |-> {}, size |-> 0]

UploadsInit ==
    /\ minted = {}
    /\ pending = [k \in Keys |-> 0]
    /\ object = [k \in Keys |-> 0]
    /\ assets = [k \in Keys |-> [rows |-> 0, size |-> 0]]
    /\ request = [r \in Requests |-> Free]
    /\ dropping = {}

\* sum_size_by_user()
SizeSum(table) == MapThenSumSet(LAMBDA k : table[k].rows * table[k].size, Keys)
Used == SizeSum(assets)

\* Faulty: lets through what is over by less than a file.
ExceedsQuotaBefore(size) == Quota > 0 /\ Used > Quota

\* exceeds_quota()
ExceedsQuota(size) == Quota > 0 /\ Used + size > Quota

\* new_object_key()
Mint(k) == k \notin minted /\ minted' = minted \cup {k}

\* POST /upload/init: the key and the record of what was declared.
InitUpload(k, size) ==
    /\ ~ExceedsQuota(size)
    /\ Mint(k)
    /\ pending' = [pending EXCEPT ![k] = size]
    /\ UNCHANGED <<object, assets, request, dropping>>

\* The browser puts the object, of the declared size or cut short.
PutObject(k, size) ==
    /\ pending[k] # 0 /\ object[k] = 0 /\ size <= pending[k]
    /\ object' = [object EXCEPT ![k] = size]
    /\ UNCHANGED <<minted, pending, assets, request, dropping>>

\* The transient of a pending upload runs out.
Expire(k) ==
    /\ pending[k] # 0 /\ \A r \in Requests : request[r].key # {k}
    /\ pending' = [pending EXCEPT ![k] = 0]
    /\ UNCHANGED <<minted, object, assets, request, dropping>>

\* reject_object(): delete_quietly() and forget().
Reject(k) ==
    /\ object' = [object EXCEPT ![k] = 0]
    /\ pending' = [pending EXCEPT ![k] = 0]

\* POST /upload/finalize up to its insert.  A client asks for one key once at a
\* time, and perhaps again.
FinalizeChecks(r, k) ==
    /\ request[r] = Free /\ \A q \in Requests : request[q].key # {k}
    /\ pending[k] # 0 /\ object[k] # 0
    /\ IF object[k] # pending[k] \/ ExceedsQuota(object[k])
       THEN Reject(k) /\ UNCHANGED request
       ELSE /\ request' = [request EXCEPT ![r] =
                  [at |-> "insert", key |-> {k}, size |-> object[k]]]
            /\ UNCHANGED <<object, pending>>
    /\ UNCHANGED <<minted, assets, dropping>>

\* POST /upload/direct up to its insert: the server stores the object itself.
DirectStores(r, k, size) ==
    /\ request[r] = Free
    /\ ~ExceedsQuota(size)
    /\ Mint(k)
    /\ object' = [object EXCEPT ![k] = size]
    /\ request' = [request EXCEPT ![r] = [at |-> "insert", key |-> {k}, size |-> size]]
    /\ UNCHANGED <<pending, assets, dropping>>

\* AssetRepository::insert()
InsertAsset(r) ==
    /\ request[r].at = "insert"
    /\ assets' = [k \in Keys |->
          IF k \in request[r].key
          THEN [rows |-> assets[k].rows + 1, size |-> request[r].size]
          ELSE assets[k]]
    /\ request' = [request EXCEPT ![r].at = "forget"]
    /\ UNCHANGED <<minted, pending, object, dropping>>

\* Faulty: keeps the record.
KeepsPending(r) ==
    /\ request[r].at = "forget"
    /\ request' = [request EXCEPT ![r] = Free]
    /\ UNCHANGED <<minted, pending, object, assets, dropping>>

\* PendingUploads::forget(); a direct upload has nothing to forget.
ForgetPending(r) ==
    /\ request[r].at = "forget"
    /\ pending' = [k \in Keys |-> IF k \in request[r].key THEN 0 ELSE pending[k]]
    /\ request' = [request EXCEPT ![r] = Free]
    /\ UNCHANGED <<minted, object, assets, dropping>>

\* DELETE /assets/:id: the row first,
DeleteAsset(k) ==
    /\ assets[k].rows > 0
    /\ assets' = [assets EXCEPT ![k].rows = @ - 1]
    /\ dropping' = dropping \cup {k}
    /\ UNCHANGED <<minted, pending, object, request>>

\* ... then the object, unless the store fails.
DropObject(k) ==
    /\ k \in dropping /\ dropping' = dropping \ {k}
    /\ object' = [object EXCEPT ![k] = 0] \/ UNCHANGED object
    /\ UNCHANGED <<minted, pending, assets, request>>

UploadsNext ==
    \/ \E k \in Keys :
          \/ \E size \in Sizes : InitUpload(k, size) \/ PutObject(k, size)
          \/ Expire(k) \/ DeleteAsset(k) \/ DropObject(k)
    \/ \E r \in Requests :
          \/ \E k \in Keys : \/ FinalizeChecks(r, k)
                           \/ \E size \in Sizes : DirectStores(r, k, size)
          \/ InsertAsset(r) \/ ForgetPending(r)

UploadsSpec == UploadsInit /\ [][UploadsNext]_uploadVars

-----------------------------------------------------------------------------
UploadsTypeOK ==
    /\ minted \subseteq Keys /\ dropping \subseteq Keys
    /\ pending \in [Keys -> 0..MaxSize] /\ object \in [Keys -> 0..MaxSize]
    /\ assets \in [Keys -> [rows : Nat, size : 0..MaxSize]]
    /\ request \in [Requests -> [at : {"free", "insert", "forget"}, key : SUBSET Keys,
                                 size : 0..MaxSize]]

\* Every row is the only one of its object, and states the size of what is
\* stored: a rejected, repeated or deleted upload leaves no row behind it.  And
\* uploads that pass the check of the quota together exceed it by no more than the
\* files of all but one of them.
AssetsAccountedFor ==
    /\ \A k \in Keys : assets[k].rows > 0 =>
          assets[k].rows = 1 /\ object[k] = assets[k].size
    /\ Quota > 0 => Used <= Quota + MaxSize * (Cardinality(Requests) - 1)
=============================================================================
