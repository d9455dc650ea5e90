------------------------------- MODULE Edges --------------------------------
(* Where the program meets what is outside it: config.toml, cache.db, and    *)
(* GitHub's JSON, and the stores that answer for them.  They share no state: *)
(* a behaviour is one of one part, and a run goes through those of each of   *)
(* Parts.                                                                    *)
EXTENDS Settings

CONSTANTS
    Parts,
    \* Of the cache file.
    Procs, Files, Wanted, MaxDamage, Initial,
    \* Of the wire.
    Inboxes, Worlds, Numbers, PerPage, Batch, MaxNews,
    \* Of the stores.
    Pages, Viewers, Corpus, NoteQueries, PullQueries

VARIABLES
    part,
    path, content, stage, conn, tries, damage,
    inbox, news, world, held, heldOf, validators, phase, slice, todo, asked, outcome,
    table, entities, members, fakes

cache == <<path, content, stage, conn, tries, damage>>
wire == <<inbox, news, world, held, heldOf, validators, phase, slice, todo, asked, outcome>>
stores == <<table, entities, members, fakes>>

C == INSTANCE CacheFile WITH file <- content, pc <- stage
W == INSTANCE Wire
S == INSTANCE Stores

\* A start ends on a cache of its own schema (schema.rs, open).
OpensAsOwn == part = "cache" => C!OpensAsOwn
\* What schema.rs:178 says of the file: the processes that share it need no
\* protocol.
SharedWithoutProtocol == C!SharedWithoutProtocol

\* A row that is asked about gets its own answer, and gets one (batch.rs and
\* inbox.rs, the aliases of a batch).
RowsGetTheirAnswers == part = "wire" => W!AnswersAreTheirOwn /\ W!NoRowStrands
\* A validator is never kept with a page it was not sent with (inbox.rs, the
\* headers of a poll).
ValidatorsAreOfThisPage == part = "wire" => W!ValidatorsAreOfThisPage

\* The two stores of notifications show the same, and the two of pull requests.
StoresAgree ==
    /\ part = "inboxes" => S!StoresAgree
    /\ part = "lists" => S!ListsAreWhatWasFetched
\* They count the same too, by the trait's words and not in fact.
TotalsAgree == S!TotalsAgree
-----------------------------------------------------------------------------
ASSUME EdgesAssumption ==
    /\ Parts \subseteq {"settings", "cache", "wire", "inboxes", "lists"}
    /\ C!CacheFileAssumption
    /\ W!WireAssumption
    /\ S!StoresAssumption

EdgesInit ==
    /\ part \in Parts
    /\ Init
    /\ part # "settings" => /\ writer = "file"
                            /\ file = NoFile
    /\ C!Init
    /\ part # "cache" => path = None
    /\ W!WireInit
    /\ part # "wire" => inbox = 1 /\ world = CHOOSE w \in Worlds : TRUE
    /\ S!StoreInit

EdgesNext ==
    \/ part = "settings" /\ Next /\ UNCHANGED <<part, cache, wire, stores>>
    \/ part = "cache" /\ C!Next /\ UNCHANGED <<part, vars, wire, stores>>
    \/ part = "wire" /\ W!WireNext /\ UNCHANGED <<part, vars, cache, stores>>
    \/ /\ \/ part = "inboxes" /\ (S!PutInbox \/ S!SetReadState)
          \/ part = "lists" /\ (S!PutPulls \/ S!Forget)
       /\ UNCHANGED <<part, vars, cache, wire>>

EdgesSpec == EdgesInit /\ [][EdgesNext]_<<part, vars, cache, wire, stores>>
=============================================================================
