---------------------------- MODULE MCMemoryStore ----------------------------
(***************************************************************************)
(* Small workloads for MemoryStore, one set of commands per question.  The *)
(* string workload is the module's own Commands; hashes run on a second    *)
(* copy of the store, H, so that what excludes some operations (see        *)
(* OnlyIndexedOps) is judged per workload.  part says which store moves.   *)
(***************************************************************************)
EXTENDS MemoryStore, StoreCommands, TLC

CONSTANTS k1, k2, f1, f2, Parts, HashThreads

VARIABLES part, hdata, hindex, hnow, hpc, htodo, hloc, hstarted, hnext

hvars == <<hdata, hindex, hnow, hpc, htodo, hloc, hstarted, hnext>>

Opts(ttl, d, ex) == [ttl |-> ttl, d |-> d, ex |-> ex]

\* Strings with deadlines, in every SET form, and what reads or expires them.
StringCommands ==
  { SetCommand(k1, 1, Opts("none", 0, "always")),
    SetCommand(k1, 1, Opts("at", 1, "nx")),
    SetCommand(k1, 1, Opts("unix", 0, "always")),
    SetCommand(k1, 1, Opts("keep", 0, "xx")),
    MsetCommand(<<k1, NotUtf8>>, None),
    GetCommand(k1), DelCommand(<<k1>>), PersistKey(k1),
    ExpireCommand(k1, 1, "gt"), PexpireCommand(k1, 2, "nx"),
    ExpireatCommand(k1, 1, "lt"),
    IncrCommand(k1), DecrCommand(k1), CleanupExpired }

\* Hashes with deadlines, strings in their way, and the whole-store operations.
HashCommands ==
  { HsetCommand(k1, <<f1, f2>>), HsetCommand(k2, <<f2>>),
    HdelCommand(k1, <<f1, f2>>), HdelCommand(k1, <<f2>>),
    HmgetCommand(k1, <<f1, f1>>), HlenCommand(k1), HexistsCommand(k1),
    ExistsCommand(<<k1, k2>>), TtlCommand(k1), PttlCommand(k1),
    ExpireCommand(k1, 0, "none"), SetWithTtl(k1, None, 0), FlushdbCommand }

\* A value that expires, a reader, and a writer.
ExpiryRaceCommands ==
  { SetCommand(k1, 1, Opts("unix", 0, "always")),
    SetCommand(k1, 1, Opts("none", 0, "always")), GetCommand(k1) }

H == INSTANCE MemoryStore
       WITH Threads <- HashThreads, Keys <- {k1, k2}, Fields <- {f1, f2},
            Commands <- HashCommands, MaxNow <- 1,
            data <- hdata, index <- hindex, now <- hnow, pc <- hpc,
            todo <- htodo, loc <- hloc, started <- hstarted, next <- hnext

MCInit == part \in Parts /\ Init /\ H!Init

MCNext ==
  \/ part = "strings" /\ Next /\ UNCHANGED <<part, hvars>>
  \/ part = "hashes" /\ H!Next /\ UNCHANGED <<part, vars>>

MCSpec == MCInit /\ [][MCNext]_<<part, vars, hvars>>

\* LazyDeleteSparesOlderValues of the store of hashes: exists, ttl, hget and
\* the other accesses that find a hash expired delete no older live value.
HashesLazyDelete == H!LazyDeleteSparesOlderValues

\* NoResurrection of the store of hashes: neither EXPIRE nor HSET, HDEL,
\* FLUSHDB or set_with_ttl gives an expired entry a new deadline.
HashesStayExpired == H!NoResurrection

Symmetry == Permutations(Threads) \cup Permutations(HashThreads)
=============================================================================
