--------------------------- MODULE CommunityBuilds ---------------------------
(* The published builds of a gun (src/frontend/modules/community-builds.js): *)
(* their list and its tags, the likes, and the comments of one of them.  A  *)
(* like is shown before the server took it; the server's answer, to it or   *)
(* to the ratings of the whole list, replaces what is shown, and a like     *)
(* that fails puts back what was shown at the click.                        *)
EXTENDS Naturals, Sequences, SequencesExt

CONSTANTS
  Published,        \* builds
  TagsOf,           \* their tags
  Named,            \* the builds that match the search
  Unrated,          \* no rating is known
  OthersLike,       \* likes of others
  MaxComments,      \* bound: comments of the build, written and deleted
  MaxCommunityCalls,   \* bound: requests under way
  MaxCommunityActs  \* bound: what the user does

ASSUME CommunityConstants ==
  /\ Named \subseteq Published /\ OthersLike \in Nat /\ MaxComments \in Nat
  /\ MaxCommunityCalls \in Nat /\ MaxCommunityActs \in Nat

VARIABLES
  cmOpen,           \* the dialog is there
  cmServer,         \* server: the builds listed, those this user likes, the comments
  cmPool,           \* _publicBuilds of the dialog, and whether a load failed over it
  cmTags,           \* _activeCbTagFilters
  cmSearch,         \* something is typed into the search
  cmRow, cmCards,   \* the tags and the builds that are drawn
  cmRatings,        \* buildRatingsCache
  cmThread,         \* the section of the comments
  cmCalls,          \* requests under way
  cmDoubt,          \* ghost: builds whose rating crossed another, or whose vote failed
  cmActs

cmVars == <<cmOpen, cmServer, cmPool, cmTags, cmSearch, cmRow, cmCards, cmRatings, cmThread,
            cmCalls, cmDoubt, cmActs>>
cmList   == <<cmPool, cmTags, cmSearch, cmRow, cmCards>>
cmVotes  == <<cmRatings, cmDoubt>>

NoPool == [known |-> FALSE, builds |-> {}, failed |-> FALSE]
NoThread == [at |-> "closed", seen |-> {}, base |-> {}, busy |-> FALSE]

CommunityInit ==
  /\ cmOpen = FALSE
  /\ cmServer \in [listed : {Published}, liked : SUBSET Published,
                   comments : {{1}}, written : {1}]
  /\ cmPool = NoPool /\ cmTags = {} /\ cmSearch = FALSE /\ cmRow = {} /\ cmCards = {}
  /\ cmRatings = [b \in Published |-> Unrated] /\ cmThread = NoThread
  /\ cmCalls = <<>> /\ cmDoubt = {} /\ cmActs = 0

CommunityAct == cmActs < MaxCommunityActs /\ cmActs' = cmActs + 1

--------------------------------------------------------------------------------
(* Requests.  got is what the server answered, before the rating to put     *)
(* back or the comments of the form; live, the part of the page it is for   *)
(* is still there; form, the form is; alone, no other request that is about *)
(* likes crossed it.                                                        *)
PageCall(kind, of, before) ==
  [kind |-> kind, of |-> of, before |-> before, taken |-> FALSE, got |-> {},
   live |-> TRUE, form |-> TRUE, alone |-> TRUE]

AboutLikes(c) == c.kind \in {"vote", "ratings"}

Send(calls, c) ==
  LET crossed == AboutLikes(c) /\ \E i \in DOMAIN calls : AboutLikes(calls[i])
      others  == [i \in DOMAIN calls |->
                    [calls[i] EXCEPT !.alone = @ /\ ~(crossed /\ AboutLikes(calls[i]))]]
  IN Append(others, [c EXCEPT !.alone = ~crossed])

HasRoom == Len(cmCalls) < MaxCommunityCalls

Orphaned(calls, kinds) ==
  [i \in DOMAIN calls |-> [calls[i] EXCEPT !.live = @ /\ calls[i].kind \notin kinds]]
NewForm(calls) == [i \in DOMAIN calls |-> [calls[i] EXCEPT !.form = FALSE]]

--------------------------------------------------------------------------------
(* _applyPublicBuildsFilter: the builds with every tag that is picked; then *)
(* tags no build has are given up.  The sections of the old list are gone.  *)
ApplyFilter(picked) ==
  LET pool == cmPool'.builds  offered == UNION {TagsOf[b] : b \in pool} IN
  /\ cmCards' = {b \in pool : picked \subseteq TagsOf[b] /\ (cmSearch' => b \in Named)}
  /\ cmTags' = IF offered = {} THEN picked ELSE picked \intersect offered
  /\ cmRow' = offered
  /\ cmThread' = NoThread

Redrawn(calls) == Orphaned(calls, {"comments", "post"})

OpenDialog ==
  /\ CommunityAct /\ ~cmOpen /\ HasRoom
  /\ cmOpen' = TRUE /\ cmTags' = {} /\ cmSearch' = FALSE
  /\ cmPool' = NoPool /\ cmRow' = {} /\ cmCards' = {}
  /\ cmCalls' = Send(cmCalls, PageCall("list", {}, {}))
  /\ UNCHANGED <<cmServer, cmVotes, cmThread>>

(* Closed, or left to load a build.                                         *)
CloseDialog ==
  /\ CommunityAct /\ cmOpen /\ cmOpen' = FALSE
  /\ cmCalls' = Orphaned(cmCalls, {"list", "comments", "post"})
  /\ cmPool' = NoPool /\ cmRow' = {} /\ cmCards' = {} /\ cmThread' = NoThread
  /\ UNCHANGED <<cmServer, cmTags, cmSearch, cmVotes>>

PickTag ==
  /\ CommunityAct /\ cmOpen /\ cmPool.known
  /\ cmPool' = [cmPool EXCEPT !.failed = FALSE]
  /\ UNCHANGED <<cmOpen, cmServer, cmSearch, cmVotes>>
  /\ cmCalls' = Redrawn(cmCalls)
  /\ \E t \in cmRow : ApplyFilter(IF t \in cmTags THEN cmTags \ {t} ELSE cmTags \union {t})

Search ==
  /\ CommunityAct /\ cmOpen /\ cmSearch' = ~cmSearch
  /\ cmPool' = [cmPool EXCEPT !.failed = @ /\ ~cmPool.known]
  /\ UNCHANGED <<cmOpen, cmServer, cmVotes>>
  /\ IF cmPool.known THEN ApplyFilter(cmTags) /\ cmCalls' = Redrawn(cmCalls)
     ELSE UNCHANGED <<cmTags, cmRow, cmCards, cmThread, cmCalls>>

(* The heart of a build.                                                    *)
RatingSeen(b) == IF cmRatings[b] = Unrated THEN [likes |-> 0, mine |-> FALSE] ELSE cmRatings[b]

Like ==
  /\ CommunityAct /\ HasRoom
  /\ \E b \in cmCards :
       /\ cmCalls' = Send(cmCalls, PageCall("vote", {b}, RatingSeen(b)))
       /\ cmRatings' = [cmRatings EXCEPT ![b] =
            IF RatingSeen(b).mine
            THEN [likes |-> IF RatingSeen(b).likes = 0 THEN 0 ELSE RatingSeen(b).likes - 1,
                  mine |-> FALSE]
            ELSE [likes |-> RatingSeen(b).likes + 1, mine |-> TRUE]]
       /\ cmDoubt' = IF cmRatings[b] = Unrated THEN cmDoubt \union {b} ELSE cmDoubt
  /\ UNCHANGED <<cmOpen, cmServer, cmList, cmThread>>

Unlist ==
  /\ CommunityAct /\ HasRoom
  /\ \E b \in cmCards : cmCalls' = Send(cmCalls, PageCall("unlist", {b}, {}))
  /\ UNCHANGED <<cmOpen, cmServer, cmList, cmVotes, cmThread>>

(* The comments.                                                            *)
ToggleComments ==
  /\ CommunityAct /\ cmCards # {}
  /\ IF cmThread.at = "closed"
     THEN /\ HasRoom /\ cmThread' = [NoThread EXCEPT !.at = "loading"]
          /\ cmCalls' = Send(cmCalls, PageCall("comments", {}, {}))
     ELSE cmThread' = [cmThread EXCEPT !.at = "closed"] /\ UNCHANGED cmCalls
  /\ UNCHANGED <<cmOpen, cmServer, cmList, cmVotes>>

PostComment ==
  /\ CommunityAct /\ HasRoom /\ cmThread.at = "shown" /\ ~cmThread.busy
  /\ cmCalls' = Send(cmCalls, PageCall("post", {}, cmThread.base))
  /\ cmThread' = [cmThread EXCEPT !.busy = TRUE]
  /\ UNCHANGED <<cmOpen, cmServer, cmList, cmVotes>>

DeleteComment ==
  /\ CommunityAct /\ HasRoom /\ cmThread.at = "shown"
  /\ \E c \in cmThread.seen : cmCalls' = Send(cmCalls, PageCall("delete", {c}, {}))
  /\ UNCHANGED <<cmOpen, cmServer, cmList, cmVotes, cmThread>>

--------------------------------------------------------------------------------
(* The server.  A like that is there already is taken back by a like.       *)
Only(s) == CHOOSE e \in s : TRUE
Rating(liked, b) == [likes |-> OthersLike + (IF b \in liked THEN 1 ELSE 0), mine |-> b \in liked]
Liked(c) ==
  IF c.before.mine \/ c.of \subseteq cmServer.liked THEN cmServer.liked \ c.of
  ELSE cmServer.liked \union c.of

TakenFor(i, server, got) ==
  /\ ~cmCalls[i].taken /\ cmServer' = server
  /\ cmCalls' = [cmCalls EXCEPT ![i].taken = TRUE, ![i].got = got]
  /\ UNCHANGED <<cmOpen, cmList, cmVotes, cmThread, cmActs>>

ServerTakes ==
  \E i \in DOMAIN cmCalls : LET c == cmCalls[i] IN
    \/ c.kind = "list" /\ TakenFor(i, cmServer, cmServer.listed)
    \/ c.kind = "ratings" /\ TakenFor(i, cmServer, [b \in c.of |-> Rating(cmServer.liked, b)])
    \/ c.kind = "comments" /\ TakenFor(i, cmServer, cmServer.comments)
    \/ c.kind = "unlist" /\ TakenFor(i, [cmServer EXCEPT !.listed = @ \ c.of], {})
    \/ /\ c.kind = "vote"
       /\ TakenFor(i, [cmServer EXCEPT !.liked = Liked(c)], Rating(Liked(c), Only(c.of)))
    \/ c.kind = "delete" /\ TakenFor(i, [cmServer EXCEPT !.comments = @ \ c.of], {})
    \/ LET n == cmServer.written + 1 IN
       /\ c.kind = "post" /\ n <= MaxComments
       /\ TakenFor(i, [cmServer EXCEPT !.comments = @ \union {n}, !.written = n], {n})

--------------------------------------------------------------------------------
(* Answers, and failures before or after the server did it.                 *)
HasAnswer(kind, i) == i \in DOMAIN cmCalls /\ cmCalls[i].kind = kind /\ cmCalls[i].taken

ListArrives ==
  \E i \in DOMAIN cmCalls :
    LET c == cmCalls[i]  rest == RemoveAt(cmCalls, i)
        ratings == PageCall("ratings", c.got, {}) IN
    /\ HasAnswer("list", i)
    /\ UNCHANGED <<cmOpen, cmServer, cmSearch, cmVotes, cmActs>>
    /\ cmPool' = IF c.live THEN [known |-> TRUE, builds |-> c.got, failed |-> FALSE]
                ELSE [cmPool EXCEPT !.failed = @ /\ (c.got = {} \/ ~cmPool.known)]
    /\ IF c.got = {}
       THEN /\ cmCards' = IF c.live THEN {} ELSE cmCards
            /\ cmCalls' = IF c.live THEN Redrawn(rest) ELSE rest
            /\ cmThread' = IF c.live THEN NoThread ELSE cmThread
            /\ UNCHANGED <<cmTags, cmRow>>
       ELSE IF cmPool'.known
       THEN ApplyFilter(cmTags) /\ cmCalls' = Send(Redrawn(rest), ratings)
       ELSE UNCHANGED <<cmTags, cmRow, cmCards, cmThread>> /\ cmCalls' = Send(rest, ratings)

ListFails ==
  \E i \in DOMAIN cmCalls :
    LET c == cmCalls[i]  rest == RemoveAt(cmCalls, i) IN
    /\ c.kind = "list"
    /\ cmCards' = IF c.live THEN {} ELSE cmCards
    /\ cmThread' = IF c.live THEN NoThread ELSE cmThread
    /\ cmCalls' = IF c.live THEN Redrawn(rest) ELSE rest
    /\ cmPool' = [cmPool EXCEPT !.failed = @ \/ c.live]
    /\ UNCHANGED <<cmOpen, cmServer, cmTags, cmSearch, cmRow, cmVotes, cmActs>>

RatingsArrive ==
  \E i \in DOMAIN cmCalls : LET c == cmCalls[i] IN
    /\ HasAnswer("ratings", i) /\ cmCalls' = RemoveAt(cmCalls, i)
    /\ cmRatings' = [b \in Published |-> IF b \in c.of THEN c.got[b] ELSE cmRatings[b]]
    /\ cmDoubt' = IF c.alone THEN cmDoubt \ c.of ELSE cmDoubt \union c.of
    /\ UNCHANGED <<cmOpen, cmServer, cmList, cmThread, cmActs>>

VoteArrives ==
  \E i \in DOMAIN cmCalls : LET c == cmCalls[i] IN
    /\ HasAnswer("vote", i) /\ cmCalls' = RemoveAt(cmCalls, i)
    /\ cmRatings' = [cmRatings EXCEPT ![Only(c.of)] = c.got]
    /\ cmDoubt' = IF c.alone THEN cmDoubt \ c.of ELSE cmDoubt \union c.of
    /\ UNCHANGED <<cmOpen, cmServer, cmList, cmThread, cmActs>>

VoteFails ==
  \E i \in DOMAIN cmCalls : LET c == cmCalls[i] IN
    /\ c.kind = "vote" /\ cmCalls' = RemoveAt(cmCalls, i)
    /\ cmRatings' = [cmRatings EXCEPT ![Only(c.of)] = c.before]
    /\ cmDoubt' = IF c.taken \/ ~c.alone THEN cmDoubt \union c.of ELSE cmDoubt
    /\ UNCHANGED <<cmOpen, cmServer, cmList, cmThread, cmActs>>

(* The list is asked for again.                                             *)
UnlistArrives ==
  \E i \in DOMAIN cmCalls :
    /\ HasAnswer("unlist", i)
    /\ cmCalls' = IF cmOpen THEN Send(RemoveAt(cmCalls, i), PageCall("list", {}, {}))
                  ELSE RemoveAt(cmCalls, i)
    /\ UNCHANGED <<cmOpen, cmServer, cmList, cmVotes, cmThread, cmActs>>

(* _renderCommentsContent, with a form of its own.                          *)
Comments(i, all) ==
  LET rest == RemoveAt(cmCalls, i) IN
  IF cmCalls[i].live
  THEN /\ cmThread' = [at |-> IF cmThread.at = "closed" THEN "closed" ELSE "shown",
                       seen |-> all, base |-> all, busy |-> FALSE]
       /\ cmCalls' = NewForm(rest)
  ELSE cmCalls' = rest /\ UNCHANGED cmThread

CommentsArrive ==
  \E i \in DOMAIN cmCalls : LET c == cmCalls[i] IN
    /\ HasAnswer("comments", i) /\ Comments(i, c.got)
    /\ UNCHANGED <<cmOpen, cmServer, cmList, cmVotes, cmActs>>

(* The form draws the comments it was drawn with, and its own.              *)
PostArrives ==
  \E i \in DOMAIN cmCalls : LET c == cmCalls[i]  all == c.before \union c.got IN
    /\ HasAnswer("post", i) /\ Comments(i, all)
    /\ UNCHANGED <<cmOpen, cmServer, cmList, cmVotes, cmActs>>

DeleteArrives ==
  \E i \in DOMAIN cmCalls : LET c == cmCalls[i] IN
    /\ HasAnswer("delete", i) /\ cmCalls' = RemoveAt(cmCalls, i)
    /\ cmThread' = [cmThread EXCEPT !.seen = @ \ c.of]
    /\ UNCHANGED <<cmOpen, cmServer, cmList, cmVotes, cmActs>>

OtherFails ==
  \E i \in DOMAIN cmCalls : LET c == cmCalls[i] IN
    /\ c.kind \in {"ratings", "unlist", "comments", "post", "delete"}
    /\ cmCalls' = RemoveAt(cmCalls, i)
    /\ cmThread' = IF c.kind = "comments" /\ c.live /\ cmThread.at # "closed"
                     THEN [NoThread EXCEPT !.at = "error"]
                   ELSE IF c.kind = "post" /\ c.live /\ c.form
                     THEN [cmThread EXCEPT !.busy = FALSE]
                   ELSE cmThread
    /\ UNCHANGED <<cmOpen, cmServer, cmList, cmVotes, cmActs>>

CommunityNext ==
  \/ OpenDialog \/ CloseDialog \/ PickTag \/ Search \/ Like \/ Unlist
  \/ ToggleComments \/ PostComment \/ DeleteComment
  \/ ServerTakes
  \/ ListArrives \/ ListFails \/ RatingsArrive \/ VoteArrives \/ VoteFails \/ UnlistArrives
  \/ CommentsArrive \/ PostArrives \/ DeleteArrives \/ OtherFails

--------------------------------------------------------------------------------
(* Once the requests are answered, the likes that are shown are those of    *)
(* the server, but for builds whose requests crossed or whose vote failed   *)
(* at the server's end.                                                     *)
LikesAgree ==
  (~\E i \in DOMAIN cmCalls : AboutLikes(cmCalls[i])) =>
    \A b \in Published \ cmDoubt :
      cmRatings[b] # Unrated => cmRatings[b] = Rating(cmServer.liked, b)

(* Every build that is shown is of the list, has the tags that are lit and  *)
(* matches the search.                                                      *)
CardsPass ==
  \A b \in cmCards :
    /\ b \in cmPool.builds /\ (cmSearch => b \in Named)
    /\ cmTags \intersect cmRow \subseteq TagsOf[b]

CommunityIsRight == LikesAgree /\ CardsPass

(* Not kept: a tag that was given up, as the only build with it was taken   *)
(* off the list, leaves all the others out.                                 *)
BuildsAreLeftOutForATag ==
  (cmPool.known /\ ~cmPool.failed /\ ~cmSearch /\ cmTags \intersect cmRow = {}) =>
    cmCards = cmPool.builds

(* Not kept: a comment that was deleted is back with the next one written.  *)
DeletedCommentsStayAway ==
  [][\A c \in cmThread.base \ cmThread.seen : c \notin cmThread'.seen]_cmVars

(* Not kept: a like on a build whose ratings did not come takes back the    *)
(* like it had, as the server takes a second like for that.                 *)
LikesAreNotLost ==
  \A i \in DOMAIN cmCalls :
    (cmCalls[i].kind = "vote" /\ cmCalls[i].taken /\ ~cmCalls[i].before.mine) =>
      cmCalls[i].got.mine
================================================================================
