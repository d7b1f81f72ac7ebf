------------------------------ MODULE Listings ------------------------------
(***************************************************************************)
(* Reading page by page: the feed (service/posts.go ListFeed over          *)
(* repository/posts.go), the list of users and the activity of members     *)
(* (service/stats.go), while posts and users are written; and the overview *)
(* of all posts.                                                           *)
(*                                                                         *)
(* A page is several statements with a snapshot each: the count, the rows  *)
(* at an offset, and for posts the publications and hashtags that they are *)
(* shown with.                                                             *)
(*                                                                         *)
(* Abstractions.  The search in a text is like that for a hashtag, with    *)
(* another predicate, and left out.  Attachments, comments, reactions and  *)
(* reviewers of a post are read by statements like those for publications  *)
(* that no filter looks at.  Members are ordered by the posts they have    *)
(* created; the other orders have the same tie-breakers.                   *)
(*                                                                         *)
(* PagesSpec and the like are named so that Posts_proofs can extend both   *)
(* this module and PostReview.                                             *)
(***************************************************************************)
EXTENDS Posting, Naturals, FiniteSets, Sequences, SequencesExt

CONSTANTS
  Posts, Platforms, Tags,
  Key,         \* NormalizePlatformKey: from names as they are sent to Platforms
  Rank,        \* the order of names and ids of users
  InitPosts,   \* the tables at first
  InitUsers,
  NewPosts,    \* bound: times, authors and hashtags of posts that are created
  Questions,   \* bound: filters that are asked for
  MaxTime,     \* bound: points in time
  MaxLimit, DefaultLimit,  \* 100 and 20 in the code
  Limits,      \* bound: limits that are asked for
  MaxWrites    \* bound: writes while a reader reads

PubStates == {"published", "missing"}
PostRows  == [state : {"none", "live", "deleted"}, at : 1 .. MaxTime, by : Users,
              status : Statuses, on : SUBSET Platforms, tags : SUBSET Tags]

\* A filter with at most one author, status and tag; pubs are names with what
\* is asked of them.
Filters == [by : SUBSET Users, status : SUBSET Statuses, anywhere : BOOLEAN,
            tags : SUBSET Tags, pubs : SUBSET ((DOMAIN Key) \X PubStates)]
NoFilter == [by |-> {}, status |-> {}, anywhere |-> FALSE, tags |-> {}, pubs |-> {}]

ASSUME ListingsAssumption ==
  /\ IsFiniteSet(Posts) /\ IsFiniteSet(Users)
  /\ MaxTime \in Nat \ {0} /\ MaxWrites \in Nat
  /\ MaxLimit \in Nat /\ DefaultLimit \in 1 .. MaxLimit /\ Limits \subseteq Nat
  /\ Rank \in [Users -> Nat] /\ \A a, b \in Users : Rank[a] = Rank[b] => a = b
  /\ InitPosts \subseteq [Posts -> PostRows] /\ InitUsers \subseteq [Users -> 0 .. MaxTime]
  /\ \A table \in InitPosts, users \in InitUsers, p \in Posts :
       table[p].state # "none" => users[table[p].by] > 0
  /\ NewPosts \subseteq (1 .. MaxTime) \X Users \X SUBSET Tags
  /\ Questions \subseteq Filters /\ NoFilter \in Questions

VARIABLES
  post,    \* posts, with their publications and hashtags
  user,    \* when a user was created; 0 if it is not there
  reader,  \* somebody who reads on until the last page
  writes

pagesVars == <<post, user, reader, writes>>

Items == Posts \cup Users
ListKinds == {"feed", "post", "users", "members"}

\* ask is what was asked for; page are the items of the page that is being
\* read, and look how those posts will be shown.
\* History: first are the items at the first count, shown says how often each
\* was shown, and what happened to the list in between: items left, came,
\* came between the count and the rows (late), changed places (moved), or had
\* equal keys (tied); stale are posts written to since the rows were read.
Readers ==
  [pc : {"idle", "count", "list", "pubs", "tags", "show", "done", "failed"},
   kind : ListKinds, ask : Questions, one : SUBSET Posts, from : 1 .. MaxTime, to : 2 .. MaxTime + 1,
   limit : 1 .. MaxLimit, offset : Nat, total : Nat, page : SUBSET Items,
   look : [Posts -> PostRows], first : SUBSET Items, shown : [Items -> Nat], stale : SUBSET Posts,
   left : BOOLEAN, came : BOOLEAN, late : BOOLEAN, moved : BOOLEAN, tied : BOOLEAN]

PagesTypeOK ==
  /\ post \in [Posts -> PostRows]
  /\ user \in [Users -> 0 .. MaxTime]
  /\ reader \in Readers
  /\ writes \in 0 .. MaxWrites
  /\ \A p \in Posts : post[p].state # "none" => user[post[p].by] > 0

-----------------------------------------------------------------------------
(* The statements.                                                         *)

\* Mutated form of Wanted: names are compared as they were sent.
WantedAsSent(pubs) == {<<f[1], f[2]>> : f \in pubs}

\* normalizePublicationFilters; blank names and other states do not get past
\* parsePublicationFilters.
Wanted(pubs) == {<<Key[f[1]], f[2]>> : f \in pubs}

\* The WHERE of the feed.
Fits(row, ask) ==
  /\ row.state = "live"
  /\ ask.by # {} => row.by \in ask.by
  /\ ask.status # {} => row.status \in ask.status
  /\ ask.tags \subseteq row.tags
  /\ ask.anywhere => row.on # {}
  /\ \A f \in Wanted(ask.pubs) : (f[2] = "published") = (f[1] \in row.on)

\* Mutated form of InRange: the end is in the range.
InRangeClosed(t, from, to) == from <= t /\ t <= to

\* buildStatsTimeWhere.
InRange(t, from, to) == from <= t /\ t < to

\* The posts that the statistics count.
Counted(table, from, to) ==
  {p \in Posts : table[p].state = "live" /\ InRange(table[p].at, from, to)}

PostsCreated(table, u, from, to) == Cardinality({p \in Counted(table, from, to) : table[p].by = u})

\* GetPostOverviewStats.
Overview(from, to) ==
  LET posts == Counted(post, from, to)
      Of(status) == Cardinality({p \in posts : post[p].status = status})
  IN  [total |-> Cardinality(posts), pending |-> Of("pending"), approved |-> Of("approved"),
       rejected |-> Of("rejected"), published |-> Cardinality({p \in posts : post[p].on # {}}),
       unpublished |-> Cardinality({p \in posts : post[p].on = {}})]

\* What a request lists.
Listed(r, table, users) ==
  CASE r.kind = "feed" -> {p \in Posts : Fits(table[p], r.ask)}
    [] r.kind = "post" -> {p \in r.one : table[p].state = "live"}
    [] OTHER           -> {u \in Users : users[u] > 0}

\* Mutated form of Before: no tie-breaker.
BeforeByCount(r, table, users, a, b) ==
  CASE r.kind = "members" -> PostsCreated(table, a, r.from, r.to) > PostsCreated(table, b, r.from, r.to)
    [] r.kind = "users"   -> users[a] > users[b]
    [] OTHER              -> table[a].at > table[b].at

\* The ORDER BY: a comes before b.  Posts and users are ordered by created_at
\* alone (repository/posts.go:476, repository/users.go:164).
Before(r, table, users, a, b) ==
  CASE r.kind = "members" ->
         LET m == PostsCreated(table, a, r.from, r.to)
             n == PostsCreated(table, b, r.from, r.to)
         IN  m > n \/ (m = n /\ Rank[a] < Rank[b])
    [] r.kind = "users"   -> users[a] > users[b]
    [] OTHER              -> table[a].at > table[b].at

\* Mutated form of Orders: no ORDER BY.
OrdersAny(r) == SetToSeqs(Listed(r, post, user))

\* Any order that the database may give the rows.
Orders(r) ==
  {s \in SetToSeqs(Listed(r, post, user)) :
     \A i, j \in DOMAIN s : i < j => ~Before(r, post, user, s[j], s[i])}

\* Items that the order leaves to chance; members have a tie-breaker.
Ties(r, table, users) ==
  /\ r.kind # "members"
  /\ \E a, b \in Listed(r, table, users) :
       a # b /\ ~Before(r, table, users, a, b) /\ ~Before(r, table, users, b, a)

PagesInit ==
  /\ post \in InitPosts
  /\ user \in InitUsers
  /\ reader = [pc |-> "idle", kind |-> "feed", ask |-> NoFilter, one |-> {},
               from |-> 1, to |-> MaxTime + 1, limit |-> DefaultLimit, offset |-> 0, total |-> 0,
               page |-> {}, look |-> post, first |-> {}, shown |-> [i \in Items |-> 0], stale |-> {},
               left |-> FALSE, came |-> FALSE, late |-> FALSE, moved |-> FALSE, tied |-> FALSE]
  /\ writes = 0

-----------------------------------------------------------------------------
(* Writers.                                                                *)

\* What a write has done to the list that is being read.
Disturbed(table, users) ==
  LET old == Listed(reader, post, user)
      new == Listed(reader, table, users)
  IN  [reader EXCEPT
        !.left  = @ \/ ~(old \subseteq new),
        !.came  = @ \/ ~(new \subseteq old),
        !.late  = @ \/ (reader.pc = "list" /\ ~(new \subseteq old)),
        !.moved = @ \/ \E a, b \in old \cap new :
                          Before(reader, post, user, a, b) # Before(reader, table, users, a, b),
        !.tied  = @ \/ Ties(reader, table, users),
        !.stale = @ \cup {p \in Posts \cap reader.page : table[p] # post[p]}]

Write(table, users) ==
  /\ writes < MaxWrites /\ reader.pc \in {"count", "list", "pubs", "tags", "show"}
  /\ writes' = writes + 1
  /\ post' = table /\ user' = users
  /\ reader' = Disturbed(table, users)

\* created_at is the begin of the transaction: it may be older than that of
\* posts that are there already.
CreatePost(p, t, u, tags) ==
  /\ post[p].state = "none" /\ user[u] > 0
  /\ Write([post EXCEPT ![p] = [state |-> "live", at |-> t, by |-> u, status |-> "pending",
                                on |-> {}, tags |-> tags]], user)

SoftDeletePost(p) ==
  /\ post[p].state = "live"
  /\ Write([post EXCEPT ![p].state = "deleted"], user)

Review(p, status) ==
  /\ post[p].state = "live" /\ post[p].status # status
  /\ Write([post EXCEPT ![p].status = status], user)

Publish(p, k) ==
  /\ post[p].state = "live" /\ k \notin post[p].on
  /\ Write([post EXCEPT ![p].on = @ \cup {k}], user)

Unpublish(p, k) ==
  /\ k \in post[p].on
  /\ Write([post EXCEPT ![p].on = @ \ {k}], user)

Retag(p, tags) ==
  /\ post[p].state = "live" /\ post[p].tags # tags
  /\ Write([post EXCEPT ![p].tags = tags], user)

\* All users of one import are created in one transaction, at one time.
ImportUsers(us, t) ==
  /\ us # {} /\ \A u \in us : user[u] = 0
  /\ Write(post, [u \in Users |-> IF u \in us THEN t ELSE user[u]])

Writer ==
  \/ \E p \in Posts :
       \/ SoftDeletePost(p)
       \/ \E new \in NewPosts : CreatePost(p, new[1], new[2], new[3])
       \/ \E status \in Statuses : Review(p, status)
       \/ \E k \in Platforms : Publish(p, k) \/ Unpublish(p, k)
       \/ \E tags \in SUBSET Tags : Retag(p, tags)
  \/ \E us \in SUBSET Users, t \in 1 .. MaxTime : ImportUsers(us, t)

-----------------------------------------------------------------------------
(* The reader.                                                             *)

\* Mutated form of Clamped: the limit as it was asked for.
ClampedNot(limit) == limit

\* clampPagination.
Clamped(limit) == IF limit = 0 \/ limit > MaxLimit THEN DefaultLimit ELSE limit

StartReading(r) ==
  /\ reader.pc = "idle"
  /\ reader' = [r EXCEPT !.first = Listed(r, post, user), !.tied = Ties(r, post, user)]
  /\ UNCHANGED <<post, user, writes>>

\* GET /feed, /users, /stats/member-activity: the first page.
StartPages(kind, ask, from, to, limit) ==
  /\ from < to   \* validateStatsRange
  /\ StartReading([reader EXCEPT !.pc = "count", !.kind = kind, !.ask = ask, !.from = from, !.to = to,
                          !.limit = Clamped(limit)])

\* GET /posts/{postID}, and the answers of writes.
StartPost(p) ==
  StartReading([reader EXCEPT !.pc = "list", !.kind = "post", !.one = {p}, !.limit = 1, !.total = 1])

Count ==
  /\ reader.pc = "count"
  /\ reader' = [reader EXCEPT !.pc = "list", !.total = Cardinality(Listed(reader, post, user))]
  /\ UNCHANGED <<post, user, writes>>

\* The rows at the offset; only those of posts need more statements.
List ==
  /\ reader.pc = "list"
  /\ \E s \in Orders(reader) :
       LET page == {s[i] : i \in (DOMAIN s) \cap (reader.offset + 1 .. reader.offset + reader.limit)}
       IN  reader' = [reader EXCEPT !.page = page, !.look = post,
                        !.pc = IF page = {} THEN "done"
                               ELSE IF page \subseteq Posts THEN "pubs" ELSE "show"]
  /\ UNCHANGED <<post, user, writes>>

\* ListPublicationsByPosts, also for posts that are deleted by now.
ReadPublications ==
  /\ reader.pc = "pubs"
  /\ reader' = [reader EXCEPT !.pc = "tags",
                  !.look = [p \in Posts |-> [reader.look[p] EXCEPT !.on = post[p].on]]]
  /\ UNCHANGED <<post, user, writes>>

\* ListHashtagsByPosts.
ReadHashtags ==
  /\ reader.pc = "tags"
  /\ reader' = [reader EXCEPT !.pc = "show",
                  !.look = [p \in Posts |-> [reader.look[p] EXCEPT !.tags = post[p].tags]]]
  /\ UNCHANGED <<post, user, writes>>

\* The answer has the total, and who reads asks for what comes after the
\* items it has got until there is none.
Answer ==
  /\ reader.pc = "show"
  /\ LET next == reader.offset + Cardinality(reader.page)
     IN  reader' = [reader EXCEPT
           !.pc = IF next >= reader.total THEN "done" ELSE "count",
           !.offset = next, !.page = {}, !.look = post, !.stale = {},
           !.shown = [i \in Items |-> reader.shown[i] + (IF i \in reader.page THEN 1 ELSE 0)]]
  /\ UNCHANGED <<post, user, writes>>

\* A statement fails.
ReadFails ==
  /\ reader.pc \in {"count", "list", "pubs", "tags"}
  /\ reader' = [reader EXCEPT !.pc = "failed", !.page = {}, !.look = post, !.stale = {}]
  /\ UNCHANGED <<post, user, writes>>

Reader ==
  \/ \E kind \in {"feed", "users", "members"}, ask \in Questions, limit \in Limits,
        from \in 1 .. MaxTime, to \in 2 .. MaxTime + 1 :
       /\ kind # "feed" => ask = NoFilter
       /\ kind # "members" => from = 1 /\ to = MaxTime + 1
       /\ StartPages(kind, ask, from, to, limit)
  \/ \E p \in Posts : StartPost(p)
  \/ Count \/ List \/ ReadPublications \/ ReadHashtags \/ Answer \/ ReadFails

PagesNext == Writer \/ Reader

PagesSpec == PagesInit /\ [][PagesNext]_pagesVars

-----------------------------------------------------------------------------
(* Properties.                                                             *)

\* Who reads to the end misses nothing that was there all the time, however
\* many items arrive in front of it, unless items left the list or changed
\* places, have equal keys, or arrived between a count and its rows
\* (repository/posts.go:462, two statements with two snapshots).
NothingSkipped ==
  reader.pc = "done" /\ ~reader.left /\ ~reader.moved /\ ~reader.tied /\ ~reader.late =>
    \A i \in reader.first : reader.shown[i] >= 1

\* ... and sees nothing twice, however many leave, unless items arrived,
\* changed places or have equal keys (repository/posts.go:476; the order of
\* members ends with the id, repository/stats.go:311).
NothingTwice ==
  ~reader.came /\ ~reader.moved /\ ~reader.tied => \A i \in Items : reader.shown[i] <= 1

\* A post is shown as something that was asked for, although its publications
\* and hashtags are read after it was chosen, unless it was written to
\* meanwhile (service/posts.go:118).  Names of platforms are compared as
\* NormalizePlatformKey has them.
FreshItemsFitTheRequest ==
  reader.pc = "show" /\ reader.kind = "feed" =>
    \A p \in reader.page \ reader.stale :
      LET row == reader.look[p] IN
      /\ row.state = "live"
      /\ reader.ask.tags \subseteq row.tags
      /\ \A f \in reader.ask.pubs :
           /\ f[2] = "published" => Key[f[1]] \in row.on
           /\ f[2] = "missing" => Key[f[1]] \notin row.on

\* The statistics agree with each other and with the totals of the feed:
\* every post has one status, is published or not, belongs to one member, and
\* lies in one of two adjacent ranges (repository/stats.go:62).
StatisticsAgree ==
  /\ \A from \in 1 .. MaxTime, to \in 2 .. MaxTime + 1 : from < to =>
       LET o == Overview(from, to) IN
       /\ o.pending + o.approved + o.rejected = o.total
       /\ o.published + o.unpublished = o.total
       /\ \A mid \in from + 1 .. to - 1 : Overview(from, mid).total + Overview(mid, to).total = o.total
  /\ LET o == Overview(1, MaxTime + 1)
         Total(ask) == Cardinality({p \in Posts : Fits(post[p], ask)})
     IN  /\ o.total = Total(NoFilter)
         /\ o.pending = Total([NoFilter EXCEPT !.status = {"pending"}])
         /\ o.published = Total([NoFilter EXCEPT !.anywhere = TRUE])

(* The inductive invariant behind them.                                     *)

Shown == {i \in Items : reader.shown[i] > 0}

\* What stands before an item in the list.
Ahead(i) == {j \in Listed(reader, post, user) : Before(reader, post, user, j, i)}

\* Whoever has not begun has nothing; only the rows of a page that is being
\* read are kept.
ReaderIsSound ==
  /\ reader.pc = "idle" =>
       reader.offset = 0 /\ reader.page = {} /\ reader.shown = [i \in Items |-> 0]
  /\ reader.page # {} => reader.pc \in {"pubs", "tags", "show"}

\* The history tells what happened to the list.
HistoryIsTrue ==
  reader.pc # "idle" =>
    /\ ~reader.tied => ~Ties(reader, post, user)
    /\ ~reader.left => reader.first \subseteq Listed(reader, post, user)
    /\ reader.pc = "list" /\ ~reader.late => Cardinality(Listed(reader, post, user)) <= reader.total

\* What was shown, or is about to be, stands in front of the next offset.
ShownStandsInFront ==
  reader.pc # "idle" /\ ~reader.came /\ ~reader.moved /\ ~reader.tied =>
    /\ reader.page \cap Shown = {}
    /\ \A i \in Items : reader.shown[i] <= 1
    /\ \A i \in Listed(reader, post, user) :
         /\ i \in Shown => Cardinality(Ahead(i)) < reader.offset
         /\ i \in reader.page => Cardinality(Ahead(i)) < reader.offset + Cardinality(reader.page)

\* What was not shown stands behind it, and the reader goes on to read it.
MissingIsToCome ==
  reader.pc \notin {"idle", "failed"} /\ ~reader.left /\ ~reader.moved /\ ~reader.tied /\ ~reader.late =>
    \A i \in reader.first \ (Shown \cup reader.page) :
      LET next == reader.offset + Cardinality(reader.page) IN
      /\ next <= Cardinality(Ahead(i))
      /\ reader.pc \in {"pubs", "tags", "show"} => next < reader.total
      /\ reader.pc # "done"

\* A post of the page that was not written to looks as it is.
FreshItemsAreTrue ==
  reader.page # {} /\ reader.kind = "feed" =>
    \A p \in reader.page \ reader.stale :
      p \in Posts /\ reader.look[p] = post[p] /\ Fits(post[p], reader.ask)

PagesInv ==
  /\ PagesTypeOK
  /\ ReaderIsSound /\ HistoryIsTrue
  /\ ShownStandsInFront /\ MissingIsToCome
  /\ FreshItemsAreTrue
=============================================================================
