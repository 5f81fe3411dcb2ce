----------------------------- MODULE CookieBanner -----------------------------
(***************************************************************************)
(* The cookie banner in the pages of visitors who share an address, so     *)
(* that the server takes them for one.  A page keeps the answer in its     *)
(* browser's storage and posts it without waiting for it to arrive; a page *)
(* that loads asks the server whether the answer it finds still stands.    *)
(***************************************************************************)
EXTENDS Naturals, Sequences, FiniteSets

CONSTANTS
  Pages,         \* pages open behind the address
  MaxPosts,      \* bound: answers posted
  MaxLoads       \* bound: loads of a page

ASSUME CookieBannerAssumption ==
  /\ IsFiniteSet(Pages)
  /\ {MaxPosts, MaxLoads} \subseteq Nat

VARIABLES
  tabs,        \* the pages are tabs of one browser, and share its storage
  script,      \* script[p]: how far checkConsent is; "told" to ask the visitor again
  withdrawing, \* pages whose withdrawConsent has yet to post
  awaited,     \* awaited[p]: the post of a withdrawal it waits for, or 0
  shown,       \* shown[p]: the banner in the document
  local,       \* local[p]: the post whose consent is in the storage, or 0
  posts,       \* the answers posted so far
  unlogged,    \* of these, the posts on their way and the posts lost
  left,        \* withdrawals on their way when their page no longer waited for them
  cookieLog,   \* the CookieConsentLog rows
  loads        \* loads so far

pageVars == <<script, withdrawing, awaited, shown, local>>
postVars == <<posts, unlogged, left, cookieLog>>
bannerVars == <<tabs, pageVars, postVars, loads>>

LogStatus == {"ANSWERED", "WITHDRAWN"}

\* A post has its page, and whether it is an answer given while a withdrawal of the
\* same browser was yet to be posted or on its way.  All accepted, all rejected or some
\* of the categories: the answer is stored and logged as it is, and neither the script nor
\* the server decides anything by which it was.
Post == [status : {"answered", "withdrawn"}, page : Pages, during : BOOLEAN]

CookieBannerTypeOK ==
  /\ tabs \in BOOLEAN
  /\ script \in [Pages -> {"absent", "resolve", "ask", "told", "ready"}]
  /\ withdrawing \subseteq Pages
  /\ awaited \in [Pages -> 0 .. MaxPosts]
  /\ shown \in [Pages -> {"absent", "shown", "fading"}]
  /\ local \in [Pages -> 0 .. MaxPosts]
  /\ posts \in Seq(Post)
  /\ unlogged \in [sent : SUBSET (1 .. MaxPosts), lost : SUBSET (1 .. MaxPosts)]
  /\ left \subseteq 1 .. MaxPosts
  /\ cookieLog \in Seq([post : 1 .. MaxPosts, status : LogStatus])
  /\ loads \in 0 .. MaxLoads

CookieBannerInit ==
  /\ tabs \in BOOLEAN
  /\ script = [p \in Pages |-> "absent"]
  /\ withdrawing = {}
  /\ awaited = [p \in Pages |-> 0]
  /\ shown = [p \in Pages |-> "absent"]
  /\ local = [p \in Pages |-> 0]
  /\ posts = <<>>
  /\ unlogged = [sent |-> {}, lost |-> {}]
  /\ left = {}
  /\ cookieLog = <<>>
  /\ loads = 0

------------------------------------------------------------------------------
(* The page.                                                               *)

\* getPublicBanner: an active banner of the website, or else one for all.
ServedBanner(active) == IF "website" \in active THEN {"website"} ELSE active

Running(p) == script[p] # "absent"
Reaches(p, at) == script' = [script EXCEPT ![p] = at]

\* initBanner does nothing while there is a banner in the document, even if it
\* fades.
InitBanner(p) == shown' = [shown EXCEPT ![p] = IF @ = "absent" THEN "shown" ELSE @]

\* The pages of the page's browser, which share a storage.
Browser(p) == IF tabs THEN Pages ELSE {p}

Stores(p, n) == local' = [q \in Pages |-> IF q \in Browser(p) THEN n ELSE local[q]]

\* Banners are made, edited and deleted between loads.  Without an active one the
\* script only warns.
LoadPage(p, active) ==
  /\ loads < MaxLoads
  /\ loads' = loads + 1
  /\ Reaches(p, IF ServedBanner(active) = {} THEN "absent" ELSE "resolve")
  /\ withdrawing' = withdrawing \ {p}
  /\ awaited' = [awaited EXCEPT ![p] = 0]
  /\ shown' = [shown EXCEPT ![p] = "absent"]
  /\ left' = left \cup ({awaited[p]} \cap unlogged.sent)
  /\ UNCHANGED <<tabs, local, posts, unlogged, cookieLog>>

\* checkConsent: the id of the visitor, answered or not, and then the storage.
ResolveVisitor(p) ==
  /\ script[p] = "resolve"
  /\ IF local[p] = 0 THEN Reaches(p, "ready") /\ InitBanner(p)
     ELSE Reaches(p, "ask") /\ UNCHANGED shown
  /\ UNCHANGED <<tabs, withdrawing, awaited, local, postVars, loads>>

\* checkConsentStatus: the last entry for the address, whoever made it.
LastStatus == IF cookieLog = <<>> THEN "NONE" ELSE cookieLog[Len(cookieLog)].status

\* If there is no answer, or an answer that stands, the storage is trusted.
AskStatus(p) ==
  /\ script[p] = "ask"
  /\ \/ LastStatus \in {"WITHDRAWN", "NONE"} /\ Reaches(p, "told")
     \/ Reaches(p, "ready")
  /\ UNCHANGED <<tabs, withdrawing, awaited, shown, local, postVars, loads>>

\* It acts on the storage as it is by now.
HearStatus(p) ==
  /\ script[p] = "told"
  /\ Stores(p, 0)
  /\ InitBanner(p)
  /\ Reaches(p, "ready")
  /\ UNCHANGED <<tabs, withdrawing, awaited, postVars, loads>>

\* Proteccio.showBanner.
ShowBanner(p) ==
  /\ Running(p)
  /\ InitBanner(p)
  /\ UNCHANGED <<tabs, script, withdrawing, awaited, local, postVars, loads>>

------------------------------------------------------------------------------
(* Answers.                                                                *)

Sends(p, status, during) ==
  /\ Len(posts) < MaxPosts
  /\ posts' = Append(posts, [status |-> status, page |-> p, during |-> during])
  /\ unlogged' = [unlogged EXCEPT !.sent = @ \cup {Len(posts) + 1}]
  /\ UNCHANGED <<left, cookieLog>>

\* A withdrawal in a page of the browser has yet to be posted, or is waited for.
WithdrawalUnderWay(p) ==
  \E q \in Browser(p) : q \in withdrawing \/ awaited[q] \in unlogged.sent

\* Any of its buttons, setConsent: into the storage, off to the server, and the banner
\* fades.  The buttons work as long as it is there.
SetConsent(p) ==
  /\ shown[p] # "absent"
  /\ Sends(p, "answered", WithdrawalUnderWay(p))
  /\ Stores(p, Len(posts) + 1)
  /\ shown' = [shown EXCEPT ![p] = "fading"]
  /\ UNCHANGED <<tabs, script, withdrawing, awaited, loads>>

RemoveBanner(p) ==
  /\ shown[p] = "fading"
  /\ shown' = [shown EXCEPT ![p] = "absent"]
  /\ UNCHANGED <<tabs, script, withdrawing, awaited, local, postVars, loads>>

\* withdrawConsent: out of the storage at once ...
WithdrawStored(p) ==
  /\ Running(p)
  /\ p \notin withdrawing /\ awaited[p] = 0
  /\ Stores(p, 0)
  /\ withdrawing' = withdrawing \cup {p}
  /\ UNCHANGED <<tabs, script, awaited, shown, postVars, loads>>

\* ... to the server when the id is resolved ...
PostWithdrawal(p) ==
  /\ p \in withdrawing
  /\ withdrawing' = withdrawing \ {p}
  /\ Sends(p, "withdrawn", FALSE)
  /\ awaited' = [awaited EXCEPT ![p] = Len(posts) + 1]
  /\ UNCHANGED <<tabs, script, shown, local, loads>>

\* Mutant: the banner is shown without waiting for the server.
ShowAgainAtOnce(p) ==
  /\ awaited[p] # 0
  /\ awaited' = [awaited EXCEPT ![p] = 0]
  /\ InitBanner(p)
  /\ UNCHANGED <<tabs, script, withdrawing, local, postVars, loads>>

\* ... and the banner when the server has answered, or the connection is broken, be the
\* withdrawal logged or not.
ShowAgain(p) ==
  /\ awaited[p] # 0
  /\ \/ awaited[p] \notin unlogged.sent /\ UNCHANGED left
     \/ awaited[p] \in unlogged.sent /\ left' = left \cup {awaited[p]}
  /\ awaited' = [awaited EXCEPT ![p] = 0]
  /\ InitBanner(p)
  /\ UNCHANGED <<tabs, script, withdrawing, local, posts, unlogged, cookieLog, loads>>

------------------------------------------------------------------------------
(* The server.                                                             *)

\* recordPublicConsent.
LoggedAs(status) == IF status = "withdrawn" THEN "WITHDRAWN" ELSE "ANSWERED"

\* The location is looked up first, at a service of others perhaps: posts are
\* logged in any order.
RecordPublicConsent(n) ==
  /\ n \in unlogged.sent
  /\ unlogged' = [unlogged EXCEPT !.sent = @ \ {n}]
  /\ cookieLog' = Append(cookieLog,
       [post |-> n, status |-> LoggedAs(posts[n].status)])
  /\ UNCHANGED <<tabs, pageVars, posts, left, loads>>

\* The website is unknown, the database fails, or the page is left.
LosePost(n) ==
  /\ n \in unlogged.sent
  /\ unlogged' = [sent |-> unlogged.sent \ {n}, lost |-> unlogged.lost \cup {n}]
  /\ UNCHANGED <<tabs, pageVars, posts, left, cookieLog, loads>>

CookieBannerNext ==
  \/ \E p \in Pages :
       \/ \E active \in SUBSET {"website", "global"} : LoadPage(p, active)
       \/ ResolveVisitor(p) \/ AskStatus(p) \/ HearStatus(p)
       \/ ShowBanner(p) \/ RemoveBanner(p)
       \/ SetConsent(p)
       \/ WithdrawStored(p) \/ PostWithdrawal(p) \/ ShowAgain(p)
  \/ \E n \in 1 .. MaxPosts : RecordPublicConsent(n) \/ LosePost(n)

CookieBannerSpec == CookieBannerInit /\ [][CookieBannerNext]_bannerVars

------------------------------------------------------------------------------
(* Properties.                                                             *)

\* A page that loads drops the consent in its storage if the last entry of the log is a
\* withdrawal.  Posts are logged in any order; still the last entry is a withdrawal
\* by the same browser, and the consent it keeps is logged before, only if the
\* consent was given while that withdrawal was under way, or its page did not hear the
\* answer: withdrawConsent empties the storage first, and asks again only when the
\* server has answered, or the connection is broken.
StoredConsentStands ==
  \A p \in Pages :
    LET n == local[p]
        last == cookieLog[Len(cookieLog)].post
    IN     /\ n \notin {0} \cup unlogged.sent \cup unlogged.lost
           /\ LastStatus = "WITHDRAWN"
           /\ posts[last].page \in Browser(p)
        => posts[n].during \/ last \in left
=============================================================================
