------------------------------- MODULE Startup -------------------------------
(***************************************************************************)
(* main.rs, run: what the scanner does before it serves.  It migrates the  *)
(* database (SchemaMigrations), fetches the qualifying markets             *)
(* (MarketFetcher), fills the store with them, writes their rows, spawns   *)
(* its tasks and binds the API port.  Each of these steps may fail, which  *)
(* ends the process, and the process may be killed at any time; somebody   *)
(* then starts it again.  The database outlives the process, the store     *)
(* does not.  Of the spawned tasks the refresher and the watcher change    *)
(* what the start has left, from the moment they are spawned               *)
(* (market_refresh.rs; MarketLifecycle has them in full).                  *)
(***************************************************************************)
EXTENDS Integers, Sequences, SequencesExt

CONSTANTS Ids, Item, FirstListing, now, min_expiry_secs, max_expiry_secs,
          page_size, scanner_max_markets, MaxMoves,   \* of MarketFetcher
          ByHand,                                     \* of SchemaMigrations
          Managed,    \* bound: the markets the tasks add and remove
          MaxDowns    \* bound: times the process ends

VARIABLES phase,      \* "migrate", "fetch", "insert", "bind", "serving" or "down"
          boot, tables, columns, applied, typed,                     \* SchemaMigrations
          listing, fetch, offset, fetched, stats, moves, steady,     \* MarketFetcher
          store,      \* ids in the MarketStore
          inserted,   \* how many of the fetched markets have been written
          rows,       \* ids in the markets table
          adding,     \* ids whose row a task has seen to, the store comes next
          failed,     \* history: ids without a row whose INSERT by a task failed
          downs

Mig == INSTANCE SchemaMigrations WITH at <- boot
Fet == INSTANCE MarketFetcher WITH at <- fetch, markets <- fetched

ASSUME StartupAssumption ==
  Fet!FetcherConstants /\ Mig!MigrationConstants /\ Managed \subseteq Ids /\ MaxDowns \in Nat

fetchVars == <<listing, fetch, offset, fetched, stats, moves, steady>>
database == <<tables, columns, applied, typed, rows>>
taskVars == <<adding, failed>>
vars == <<phase, boot, database, fetchVars, store, inserted, taskVars, downs>>

-----------------------------------------------------------------------------

Migrate ==
  /\ phase = "migrate"
  /\ Mig!Startup
  /\ phase' = IF boot' = "ready" THEN "fetch" ELSE "migrate"
  /\ UNCHANGED <<fetchVars, store, inserted, rows, taskVars, downs>>

\* Err of fetch_markets ends run; its markets go into the store.
Fetch ==
  /\ phase = "fetch"
  /\ Fet!ReceivePage
  /\ phase' = IF fetch' = "done" THEN "insert" ELSE "fetch"
  /\ store' = IF fetch' = "done" THEN ToSet(fetched') ELSE store
  /\ UNCHANGED <<boot, database, inserted, taskVars, downs>>

\* Mutant of OnInsertError: the loop goes on with the next market.
OnInsertErrorContinue ==
  /\ inserted' = inserted + 1
  /\ UNCHANGED <<phase, boot, store>>

\* The `?` of main.rs 143.
OnInsertError ==
  /\ phase' = "down" /\ boot' = "down"
  /\ store' = {} /\ inserted' = 0

\* Mutant of Inserts: INSERT without OR IGNORE.
InsertsOnce(id) == id \notin rows

\* INSERT OR IGNORE: a row that is there is no error.
Inserts(id) == TRUE

InsertMarket ==
  /\ phase = "insert" /\ inserted < Len(fetched)
  /\ IF Inserts(fetched[inserted + 1])
       THEN /\ rows' = rows \cup {fetched[inserted + 1]}
            /\ inserted' = inserted + 1
            /\ UNCHANGED <<phase, boot, store>>
       ELSE OnInsertError /\ UNCHANGED rows
  /\ UNCHANGED <<tables, columns, applied, typed, fetchVars, taskVars, downs>>

\* The statement fails for another reason: a busy or full database.
InsertFails ==
  /\ phase = "insert" /\ inserted < Len(fetched)
  /\ downs < MaxDowns /\ downs' = downs + 1
  /\ OnInsertError
  /\ UNCHANGED <<database, fetchVars, taskVars>>

\* The end of the bootstrap: the tasks are spawned, and run from here on.
Spawn ==
  /\ phase = "insert" /\ inserted = Len(fetched)
  /\ phase' = "bind"
  /\ UNCHANGED <<boot, database, fetchVars, store, inserted, taskVars, downs>>

Spawned == phase \in {"bind", "serving"}

\* The refresher or the watcher writes the row of a market it adds.  When the
\* statement fails it says so and goes on with the market.
TaskInserts(id) ==
  /\ Spawned /\ id \notin adding
  /\ adding' = adding \cup {id}
  /\ \/ rows' = rows \cup {id} /\ UNCHANGED failed
     \/ failed' = failed \cup ({id} \ rows) /\ UNCHANGED rows
  /\ UNCHANGED <<phase, boot, tables, columns, applied, typed, fetchVars, store,
                 inserted, downs>>

TaskAdds(id) ==
  /\ id \in adding
  /\ adding' = adding \ {id}
  /\ store' = store \cup {id}
  /\ UNCHANGED <<phase, boot, database, fetchVars, inserted, failed, downs>>

\* A market that is no longer listed, or has ended.
TaskRemoves(id) ==
  /\ Spawned /\ id \in store
  /\ store' = store \ {id}
  /\ UNCHANGED <<phase, boot, database, fetchVars, inserted, taskVars, downs>>

Bind ==
  /\ phase = "bind"
  /\ phase' = "serving"
  /\ UNCHANGED <<boot, database, fetchVars, store, inserted, taskVars, downs>>

\* The process ends: killed, or run returned an error, of a statement, of the
\* fetch, or of bind.
GoDown ==
  /\ phase # "down" /\ downs < MaxDowns
  /\ phase' = "down" /\ boot' = "down" /\ downs' = downs + 1
  /\ store' = {} /\ inserted' = 0 /\ adding' = {} /\ failed' = {}
  /\ UNCHANGED <<database, fetchVars>>

\* Started again: a new fetch, of the listing as it is then.
Restart ==
  /\ phase = "down"
  /\ phase' = "migrate" /\ boot' = "run"
  /\ fetch' = "request" /\ offset' = 0 /\ fetched' = <<>>
  /\ stats' = Fet!NoStats
  /\ steady' = ToSet(listing)
  /\ UNCHANGED <<database, listing, moves, store, inserted, taskVars, downs>>

\* The exchange, between the requests of a fetch.
Relist ==
  /\ phase = "fetch"
  /\ Fet!Relist
  /\ UNCHANGED <<phase, boot, database, store, inserted, taskVars, downs>>

AlterByHand(added) ==
  /\ Mig!AlterByHand(added)
  /\ UNCHANGED <<phase, rows, fetchVars, store, inserted, taskVars, downs>>

Init ==
  /\ phase = "migrate"
  /\ Mig!Init /\ Fet!Init
  /\ store = {} /\ inserted = 0 /\ rows = {} /\ downs = 0
  /\ adding = {} /\ failed = {}

Start == Migrate \/ Fetch \/ InsertMarket \/ InsertFails \/ Spawn \/ Bind

TaskStep(id) == TaskInserts(id) \/ TaskAdds(id) \/ TaskRemoves(id)

Next == \/ Start \/ GoDown \/ Restart \/ Relist
        \/ \E id \in Managed : TaskStep(id)
        \/ \E added \in ByHand : AlterByHand(added)

\* Requests and statements end, and somebody starts the scanner again.
FairSpec == Init /\ [][Next]_vars /\ WF_vars(Start) /\ WF_vars(Restart)

-----------------------------------------------------------------------------
(* Properties.                                                              *)

\* Of the parts, whatever the others do meanwhile.
AppliedColumnsExplained == Mig!AppliedColumnsExplained
SteadyRankFetchedOnce   == Fet!SteadyRankFetchedOnce
StillListingExact       == Fet!StillListingExact

\* When the bootstrap ends and the tasks are about to be spawned, every
\* migration is recorded and the store holds exactly the fetched markets, each
\* with its row (main.rs 92-146).  From then on the tasks change the store, and
\* still the fetched markets keep their rows, and a market in the store has one
\* unless a task added it after its INSERT had failed: for those
\* (market_refresh.rs 105-109, 316-319) windows are written of a market that
\* the database does not know.
BootstrapIsComplete ==
  /\ phase = "insert" /\ inserted = Len(fetched) =>
       /\ applied = Mig!Versions
       /\ store = ToSet(fetched)
       /\ store \subseteq rows
  /\ Spawned =>
       /\ ToSet(fetched) \subseteq rows
       /\ store \subseteq rows \cup failed

\* A scanner that ends only finitely often and is started again each time
\* comes to serve and stays up: nothing an earlier start left in the database
\* keeps a later one from getting through (main.rs 56-86, 132).  There is a
\* database file, if an empty one: without it no start gets past main.rs 91.
ScannerComesUp == <>[](phase = "serving")
=============================================================================
