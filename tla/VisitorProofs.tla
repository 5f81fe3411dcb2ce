--------------------------- MODULE VisitorProofs ----------------------------
(***************************************************************************)
(* Theorems about what a visitor meets: the widget's page, the cookie      *)
(* banner and the notices, for any addresses, fetches, pages, answers,     *)
(* texts, edits, languages and limits.                                     *)
(***************************************************************************)
EXTENDS WidgetPage, CookieBanner, Notices, FiniteSetTheorems, SequenceTheorems, TLAPS

------------------------------------------------------------------------------
(***************************************************************************)
(* The widget's page: WidgetPage.                                          *)
(***************************************************************************)

(***************************************************************************)
(* The inductive invariant.                                                *)
(***************************************************************************)
FormFits ==
  /\ template \in [otp : BOOLEAN, parental : BOOLEAN, aadhaar : BOOLEAN]
  /\ page \in Page
  /\ reopening \in BOOLEAN

\* A mark is set for an address that was confirmed.
CacheFits ==
  /\ entry \in [Addresses -> (0 .. MaxWrong) \cup {None}]
  /\ mark \in [Addresses -> BOOLEAN]
  /\ aadhaar \in [open : BOOLEAN, verified : BOOLEAN]
  /\ confirmed \subseteq Addresses
  /\ \A a \in Addresses : mark[a] => a \in confirmed

\* A wrong answer is counted within the limit, a consent is sent with an age if the
\* template asks for one, and who is about to be marked was confirmed.
Right(r) ==
  /\ r.step = "miss" => r.wrong =< MaxWrong
  /\ r.step = "record" => ~(template.parental /\ r.age = "none")
  /\ r.step \in {"mark", "clear"} => Recipient(r) \in confirmed

FetchesFit ==
  /\ fetch \in [Fetches -> Fetch]
  /\ fetches \in 0 .. MaxFetches
  /\ \A f \in Fetches : Right(fetch[f])

RecordsFit == records \subseteq Record /\ RecordedIsVerified

WidgetInv == FormFits /\ CacheFits /\ FetchesFit /\ RecordsFit

LEMMA WidgetInvImplies == WidgetInv => WidgetTypeOK /\ RecordedIsVerified
BY DEF WidgetInv, FormFits, CacheFits, FetchesFit, RecordsFit, WidgetTypeOK

(***************************************************************************)
(* Requests of the page.                                                   *)
(***************************************************************************)
Asked == {"send", "verify", "record", "initiate", "confirm"}
AtWork == Asked \cup {"unmark", "mark", "clear", "drop", "confirmed"}

\* What a request carries.
LEMMA FetchFields ==
  ASSUME NEW r \in Fetch
  PROVE  /\ r.step \in AtWork =>
              /\ r \in [step : AtWork, kind : Asked, age : Ages, email : Addresses]
              /\ r.kind \in Asked /\ r.age \in Ages /\ r.email \in Addresses
         /\ r.step = "miss" =>
              /\ r.kind = "verify" /\ r.age \in Ages /\ r.email \in Addresses
              /\ r.wrong \in Nat
         /\ r.step = "answer" => r.kind \in Asked \cup {"translate"} /\ r.ok \in BOOLEAN
<1> USE DEF Fetch, NoFetch, Asked, AtWork
<1>1. r.step \in AtWork => r \in [step : AtWork, kind : Asked, age : Ages, email : Addresses]
  OBVIOUS
<1>2. r.step \in AtWork => r.kind \in Asked /\ r.age \in Ages /\ r.email \in Addresses
  BY <1>1
<1>3. r.step = "miss" =>
        /\ r.kind = "verify" /\ r.age \in Ages /\ r.email \in Addresses
        /\ r.wrong \in Nat
  OBVIOUS
<1>4. r.step = "answer" => r.kind \in Asked \cup {"translate"} /\ r.ok \in BOOLEAN
  OBVIOUS
<1>5. QED
  BY <1>1, <1>2, <1>3, <1>4

LEMMA AnswersFit ==
  ASSUME NEW kind \in Asked \cup {"translate"}, NEW ok \in BOOLEAN
  PROVE  Answer(kind, ok) \in Fetch /\ Answer(kind, ok).step = "answer"
<1>1. Answer(kind, ok) \in [step : {"answer"}, kind : Asked \cup {"translate"}, ok : BOOLEAN]
  BY DEF Answer
<1>2. QED
  BY <1>1 DEF Fetch, Asked, Answer

LEMMA IdleFits == NoFetch \in Fetch /\ NoFetch.step = "idle"
BY DEF Fetch, NoFetch

LEMMA SaidFits ==
  ASSUME FormFits, NEW kind \in Asked
  PROVE  /\ Said(kind) \in Fetch /\ Said(kind).step = kind
         /\ Said(kind).age = page.age
<1>1. page.age \in Ages /\ page.email \in Addresses
  BY DEF FormFits, Page
<1>2. Said(kind) \in [step : AtWork, kind : Asked, age : Ages, email : Addresses]
  BY <1>1 DEF Said, AtWork
<1>3. QED
  BY <1>2 DEF Fetch, Said, Asked, AtWork

LEMMA ThenFits ==
  ASSUME FetchesFit, NEW f \in Fetches, fetch[f].step \in AtWork, NEW s \in AtWork
  PROVE  /\ Then(f, s) \in Fetch /\ Then(f, s).step = s
         /\ Then(f, s).age = fetch[f].age /\ Then(f, s).email = fetch[f].email
<1>1. fetch[f] \in Fetch
  BY DEF FetchesFit
<1>2. fetch[f] \in [step : AtWork, kind : Asked, age : Ages, email : Addresses]
  BY <1>1, FetchFields
<1>3. /\ Then(f, s) \in [step : AtWork, kind : Asked, age : Ages, email : Addresses]
      /\ Then(f, s).step = s
      /\ Then(f, s).age = fetch[f].age /\ Then(f, s).email = fetch[f].email
  BY <1>2 DEF Then
<1>4. QED
  BY <1>3 DEF Fetch, Asked, AtWork

\* A request is replaced while more is confirmed at most.
LEMMA ReplacedFits ==
  ASSUME FetchesFit, UNCHANGED template, confirmed \subseteq confirmed',
         NEW f \in Fetches, NEW to \in Fetch, fetch' = [fetch EXCEPT ![f] = to],
         fetches' \in 0 .. MaxFetches,
         to.step = "miss" => to.wrong =< MaxWrong,
         to.step = "record" => ~(template.parental /\ to.age = "none"),
         to.step \in {"mark", "clear"} => Recipient(to) \in confirmed'
  PROVE  FetchesFit'
<1>1. fetch \in [Fetches -> Fetch]
  BY DEF FetchesFit
<1>2. /\ fetch' \in [Fetches -> Fetch] /\ fetch'[f] = to
      /\ \A g \in Fetches : g # f => fetch'[g] = fetch[g]
  BY <1>1
<1>3. \A r : Recipient(r)' = Recipient(r)
  BY DEF Recipient, BelowThreshold
<1>4. ASSUME NEW g \in Fetches
      PROVE  /\ fetch'[g].step = "miss" => fetch'[g].wrong =< MaxWrong
             /\ fetch'[g].step = "record" => ~(template.parental /\ fetch'[g].age = "none")
             /\ fetch'[g].step \in {"mark", "clear"} => Recipient(fetch'[g]) \in confirmed'
  <2>1. CASE g = f
    BY <1>2, <2>1
  <2>2. CASE g # f
    BY <1>2, <2>2 DEF FetchesFit, Right
  <2>3. QED
    BY <2>1, <2>2
<1>5. QED
  BY <1>2, <1>4 DEF FetchesFit, Right, Recipient, BelowThreshold

\* It is answered, or forgotten.
LEMMA AnsweredFits ==
  ASSUME FetchesFit, UNCHANGED template, confirmed \subseteq confirmed',
         NEW f \in Fetches, NEW to \in Fetch, fetch' = [fetch EXCEPT ![f] = to],
         fetches' \in 0 .. MaxFetches, to.step \in {"answer", "idle"}
  PROVE  FetchesFit'
BY ReplacedFits

LEMMA SameCache ==
  ASSUME CacheFits, UNCHANGED cache
  PROVE  CacheFits' /\ confirmed' = confirmed
BY DEF CacheFits, cache

LEMMA SameRecords ==
  ASSUME RecordsFit, UNCHANGED records, confirmed \subseteq confirmed'
  PROVE  RecordsFit'
BY DEF RecordsFit, RecordedIsVerified

(***************************************************************************)
(* The form.                                                               *)
(***************************************************************************)
LEMMA PageFits ==
  ASSUME NEW p \in Page
  PROVE  /\ Shown(p) \in Page /\ Hidden(p) \in Page
         /\ [p EXCEPT !.overlay = "absent"] \in Page
         /\ [p EXCEPT !.busy = TRUE] \in Page
         /\ \A age \in Ages : [p EXCEPT !.age = age, !.otpVerified = FALSE] \in Page
         /\ \A email \in Addresses : [p EXCEPT !.email = email] \in Page
<1>1. Shown(p) \in Page
  BY DEF Shown, Page, Ages
<1>2. Hidden(p) \in Page
  BY DEF Hidden, Page, Ages
<1>3. [p EXCEPT !.overlay = "absent"] \in Page /\ [p EXCEPT !.busy = TRUE] \in Page
  BY DEF Page, Ages
<1>4. \A age \in Ages : [p EXCEPT !.age = age, !.otpVerified = FALSE] \in Page
  BY DEF Page
<1>5. \A email \in Addresses : [p EXCEPT !.email = email] \in Page
  BY DEF Page, Ages
<1>6. QED
  BY <1>1, <1>2, <1>3, <1>4, <1>5

LEMMA HeardFits ==
  ASSUME NEW p \in Page, NEW r, r.kind \in Asked \cup {"translate"}, r.ok \in BOOLEAN
  PROVE  Heard(p, r) \in Page
<1>1. CASE r.kind = "send"
  <2>1. [p EXCEPT !.otpVerified = FALSE] \in Page
    BY DEF Page, Ages
  <2>2. QED
    BY <1>1, <2>1 DEF Heard
<1>2. CASE r.kind = "verify"
  <2>1. AfterOtp(p, r.ok) \in Page
    BY DEF AfterOtp, Page, Ages
  <2>2. QED
    BY <1>2, <2>1 DEF Heard
<1>3. CASE r.kind = "initiate"
  <2>1. [p EXCEPT !.transaction = TRUE, !.aadhaarVerified = FALSE] \in Page
    BY DEF Page, Ages
  <2>2. QED
    BY <1>3, <2>1 DEF Heard
<1>4. CASE r.kind = "confirm"
  <2>1. [p EXCEPT !.aadhaarVerified = r.ok] \in Page
    BY DEF Page, Ages
  <2>2. QED
    BY <1>4, <2>1 DEF Heard
<1>5. CASE r.kind = "record"
  <2>1. [p EXCEPT !.busy = FALSE] \in Page
    BY DEF Page, Ages
  <2>2. QED
    BY <1>5, <2>1, PageFits DEF Heard
<1>6. CASE r.kind = "translate"
  BY <1>6, PageFits DEF Heard
<1>7. QED
  BY <1>1, <1>2, <1>3, <1>4, <1>5, <1>6 DEF Asked

\* Only the page moves.
LEMMA FormMoveFits ==
  ASSUME WidgetInv, FormFits', Quiet
  PROVE  WidgetInv'
<1>1. CacheFits' /\ UNCHANGED <<confirmed, records, fetch, fetches, template>>
  BY SameCache DEF WidgetInv, Quiet, cache
<1>2. FetchesFit'
  BY <1>1 DEF WidgetInv, FetchesFit, Right, Recipient, BelowThreshold
<1>3. RecordsFit'
  BY <1>1, SameRecords DEF WidgetInv
<1>4. QED
  BY <1>1, <1>2, <1>3 DEF WidgetInv

LEMMA FormFit ==
  ASSUME WidgetInv,
         \/ Show \/ Hide \/ SwitchToDefault \/ Remove \/ Reopen
         \/ \E age \in Ages : EnterAge(age)
         \/ \E email \in Addresses : EnterEmail(email)
  PROVE  WidgetInv'
<1>1. page \in Page /\ reopening \in BOOLEAN
  BY DEF WidgetInv, FormFits
<1>2. Quiet
  BY DEF Show, Hide, SwitchToDefault, Remove, Reopen, EnterAge, EnterEmail
<1>3. page' \in Page
  <2>1. \/ page' = page \/ page' = Shown(page) \/ page' = Hidden(page)
        \/ page' = [page EXCEPT !.overlay = "absent"]
        \/ \E age \in Ages : page' = [page EXCEPT !.age = age, !.otpVerified = FALSE]
        \/ \E email \in Addresses : page' = [page EXCEPT !.email = email]
    BY DEF Show, Hide, SwitchToDefault, Remove, Reopen, EnterAge, EnterEmail
  <2>2. QED
    BY <1>1, <2>1, PageFits
<1>4. reopening' \in BOOLEAN
  BY <1>1 DEF Show, Hide, SwitchToDefault, Remove, Reopen, EnterAge, EnterEmail
<1>5. FormFits'
  BY <1>2, <1>3, <1>4 DEF WidgetInv, FormFits, Quiet
<1>6. QED
  BY <1>2, <1>5, FormMoveFits

(***************************************************************************)
(* What the page asks.                                                     *)
(***************************************************************************)
LEMMA AskingFits ==
  ASSUME WidgetInv, page' \in Page, UNCHANGED reopening,
         NEW f \in Fetches, NEW r \in Fetch, Asks(f, r),
         r.step \in Asked \cup {"answer"},
         r.step = "record" => ~(template.parental /\ r.age = "none")
  PROVE  WidgetInv'
<1>1. UNCHANGED <<template, cache, records>> /\ fetch' = [fetch EXCEPT ![f] = r]
  BY DEF Asks
<1>2. fetches' \in 0 .. MaxFetches
  BY WidgetAssumption DEF Asks, WidgetInv, FetchesFit
<1>3. CacheFits' /\ confirmed' = confirmed
  BY <1>1, SameCache DEF WidgetInv
<1>4. FetchesFit'
  BY <1>1, <1>2, <1>3, ReplacedFits DEF WidgetInv, Asked
<1>5. RecordsFit'
  BY <1>1, <1>3, SameRecords DEF WidgetInv
<1>6. FormFits'
  BY <1>1 DEF WidgetInv, FormFits
<1>7. QED
  BY <1>3, <1>4, <1>5, <1>6 DEF WidgetInv

LEMMA AsksFit ==
  ASSUME WidgetInv, NEW f \in Fetches,
         \/ SendOtp(f) \/ VerifyOtp(f)
         \/ InitiateAadhaar(f) \/ ConfirmAadhaar(f)
         \/ Submit(f) \/ SwitchLanguage(f)
  PROVE  WidgetInv'
<1>1. page \in Page
  BY DEF WidgetInv, FormFits
<1>2. CASE SendOtp(f) \/ VerifyOtp(f) \/ InitiateAadhaar(f) \/ ConfirmAadhaar(f)
  <2>1. PICK kind \in {"send", "verify", "initiate", "confirm"} : Asks(f, Said(kind))
    BY <1>2 DEF SendOtp, VerifyOtp, InitiateAadhaar, ConfirmAadhaar
  <2>2. Said(kind) \in Fetch /\ Said(kind).step = kind /\ kind \in Asked
    BY SaidFits DEF WidgetInv, Asked
  <2>3. UNCHANGED <<page, reopening>>
    BY <1>2 DEF SendOtp, VerifyOtp, InitiateAadhaar, ConfirmAadhaar
  <2>4. QED
    BY <1>1, <2>1, <2>2, <2>3, AskingFits
<1>3. CASE Submit(f)
  <2>1. Asks(f, Said("record")) /\ page' = [page EXCEPT !.busy = TRUE] /\ UNCHANGED reopening
    BY <1>3 DEF Submit
  <2>2. Said("record") \in Fetch /\ Said("record").step = "record" /\ Said("record").age = page.age
    BY SaidFits DEF WidgetInv, Asked
  <2>3. ~(template.parental /\ page.age = "none")
    BY <1>3 DEF Submit, Valid
  <2>4. QED
    BY <1>1, <2>1, <2>2, <2>3, PageFits, AskingFits DEF Asked
<1>4. CASE SwitchLanguage(f)
  <2>1. PICK ok \in BOOLEAN : Asks(f, Answer("translate", ok))
    BY <1>4 DEF SwitchLanguage
  <2>2. Answer("translate", ok) \in Fetch /\ Answer("translate", ok).step = "answer"
    BY AnswersFit
  <2>3. UNCHANGED <<page, reopening>>
    BY <1>4 DEF SwitchLanguage
  <2>4. QED
    BY <1>1, <2>1, <2>2, <2>3, AskingFits
<1>5. QED
  BY <1>2, <1>3, <1>4

(***************************************************************************)
(* The server.                                                             *)
(***************************************************************************)
\* The cache is written, and the request goes on or is answered.
LEMMA ServingFits ==
  ASSUME WidgetInv, CacheFits', confirmed \subseteq confirmed',
         NEW f \in Fetches, NEW s, NEW to \in Fetch, Works(f, s, to),
         UNCHANGED records,
         to.step = "miss" => to.wrong =< MaxWrong,
         to.step # "record",
         to.step \in {"mark", "clear"} => Recipient(to) \in confirmed'
  PROVE  WidgetInv'
<1>1. fetch' = [fetch EXCEPT ![f] = to] /\ UNCHANGED <<template, page, reopening, fetches>>
  BY DEF Works
<1>2. FetchesFit'
  <2>1. fetches' \in 0 .. MaxFetches
    BY <1>1 DEF WidgetInv, FetchesFit
  <2>2. QED
    BY <1>1, <2>1, ReplacedFits DEF WidgetInv
<1>3. RecordsFit'
  BY SameRecords DEF WidgetInv
<1>4. FormFits'
  BY <1>1 DEF WidgetInv, FormFits
<1>5. QED
  BY <1>2, <1>3, <1>4 DEF WidgetInv

\* The same for an answer.
LEMMA AnsweringFits ==
  ASSUME WidgetInv, CacheFits', confirmed \subseteq confirmed',
         NEW f \in Fetches, NEW s, NEW kind \in Asked, NEW ok \in BOOLEAN,
         Works(f, s, Answer(kind, ok)), UNCHANGED records
  PROVE  WidgetInv'
<1>1. Answer(kind, ok) \in Fetch /\ Answer(kind, ok).step = "answer"
  BY AnswersFit
<1>2. QED
  BY <1>1, ServingFits

\* The kind of a request the server is at work on, and whom it is about.
LEMMA WorkOn ==
  ASSUME WidgetInv, NEW f \in Fetches, fetch[f].step \in AtWork \cup {"miss"}
  PROVE  fetch[f] \in Fetch /\ fetch[f].kind \in Asked
<1>1. fetch[f] \in Fetch
  BY DEF WidgetInv, FetchesFit
<1>2. QED
  BY <1>1, FetchFields DEF Asked

LEMMA EntryFits ==
  ASSUME CacheFits, NEW g, NEW e \in (0 .. MaxWrong) \cup {None},
         entry' = [entry EXCEPT ![g] = e], UNCHANGED <<mark, aadhaar, confirmed>>
  PROVE  CacheFits'
<1>1. entry' \in [Addresses -> (0 .. MaxWrong) \cup {None}]
  BY DEF CacheFits
<1>2. QED
  BY <1>1 DEF CacheFits

LEMMA MarkFits ==
  ASSUME CacheFits, NEW g, NEW m \in BOOLEAN, m => g \in confirmed,
         mark' = [mark EXCEPT ![g] = m], UNCHANGED <<entry, aadhaar, confirmed>>
  PROVE  CacheFits'
<1>1. mark' \in [Addresses -> BOOLEAN]
  BY DEF CacheFits
<1>2. \A a \in Addresses : mark'[a] => a \in confirmed
  BY DEF CacheFits
<1>3. QED
  BY <1>1, <1>2 DEF CacheFits

LEMMA StoreCodeFits ==
  ASSUME WidgetInv, NEW f \in Fetches, StoreCode(f)
  PROVE  WidgetInv'
<1>1. fetch[f].step = "send" /\ UNCHANGED <<mark, aadhaar, confirmed, records>>
  BY DEF StoreCode
<1>2. fetch[f].kind \in Asked
  BY <1>1, WorkOn DEF AtWork, Asked
<1>3. CASE Works(f, "send", Then(f, "unmark")) /\ entry' = [entry EXCEPT ![Goal(f)] = 0]
  <2>1. Then(f, "unmark") \in Fetch /\ Then(f, "unmark").step = "unmark"
    BY <1>1, ThenFits DEF WidgetInv, AtWork, Asked
  <2>2. 0 \in 0 .. MaxWrong
    BY WidgetAssumption
  <2>3. CacheFits'
    BY <1>1, <1>3, <2>2, EntryFits DEF WidgetInv
  <2>4. QED
    BY <1>1, <1>3, <2>1, <2>3, ServingFits
<1>4. CASE Works(f, "send", Refused(f)) /\ UNCHANGED entry
  <2>1. CacheFits'
    BY <1>1, <1>4, SameCache DEF WidgetInv, cache
  <2>2. QED
    BY <1>1, <1>2, <1>4, <2>1, AnsweringFits DEF Refused
<1>5. QED
  BY <1>3, <1>4 DEF StoreCode

LEMMA DropMarkFits ==
  ASSUME WidgetInv, NEW f \in Fetches, DropMark(f)
  PROVE  WidgetInv'
<1>1. PICK sent \in BOOLEAN : Works(f, "unmark", Answer("send", sent))
  BY DEF DropMark
<1>2. /\ mark' = [mark EXCEPT ![Goal(f)] = FALSE]
      /\ UNCHANGED <<entry, aadhaar, confirmed, records>>
  BY DEF DropMark
<1>3. CacheFits'
  BY <1>2, MarkFits DEF WidgetInv
<1>4. QED
  BY <1>1, <1>2, <1>3, AnsweringFits DEF Asked

LEMMA CompareCodeFits ==
  ASSUME WidgetInv, NEW f \in Fetches, CompareCode(f)
  PROVE  WidgetInv'
<1> DEFINE g    == Goal(f)
           miss == [step |-> "miss", kind |-> "verify", age |-> fetch[f].age,
                    email |-> fetch[f].email, wrong |-> entry[g] + 1]
<1>1. fetch[f].step = "verify" /\ UNCHANGED <<entry, mark, aadhaar, records>>
  BY DEF CompareCode
<1>2. fetch[f] \in Fetch /\ fetch[f].kind \in Asked /\ fetch[f].step \in AtWork
  BY <1>1, WorkOn DEF AtWork, Asked
<1>3. fetch[f].age \in Ages /\ fetch[f].email \in Addresses
  BY <1>2, FetchFields
<1>4. CASE Works(f, "verify", Refused(f)) /\ UNCHANGED confirmed
  <2>1. CacheFits'
    BY <1>1, <1>4, SameCache DEF WidgetInv, cache
  <2>2. QED
    BY <1>1, <1>2, <1>4, <2>1, AnsweringFits DEF Refused
<1>5. CASE Works(f, "verify", Then(f, "drop")) /\ UNCHANGED confirmed
  <2>1. CacheFits'
    BY <1>1, <1>5, SameCache DEF WidgetInv, cache
  <2>2. Then(f, "drop") \in Fetch /\ Then(f, "drop").step = "drop"
    BY <1>2, ThenFits DEF WidgetInv, AtWork
  <2>3. QED
    BY <1>1, <1>5, <2>1, <2>2, ServingFits
<1>6. CASE g # None /\ entry[g] # None /\ ~Spent(entry[g])
  <2>1. g \in Addresses
    BY <1>3, <1>6, WidgetAssumption DEF Goal, Recipient
  <2>2. entry[g] \in 0 .. MaxWrong /\ MaxWrong \in Nat
    BY <1>6, <2>1, WidgetAssumption DEF WidgetInv, CacheFits
  <2>3. CASE Works(f, "verify", Then(f, "mark")) /\ confirmed' = confirmed \cup {g}
    <3>1. CacheFits'
      BY <1>1, <2>1, <2>3 DEF WidgetInv, CacheFits
    <3>2. /\ Then(f, "mark") \in Fetch /\ Then(f, "mark").step = "mark"
          /\ Then(f, "mark").age = fetch[f].age /\ Then(f, "mark").email = fetch[f].email
      BY <1>2, ThenFits DEF WidgetInv, AtWork
    <3>3. Recipient(Then(f, "mark")) = g
      BY <3>2 DEF Goal, Recipient
    <3>4. QED
      BY <1>1, <2>3, <3>1, <3>2, <3>3, ServingFits
  <2>4. CASE Works(f, "verify", miss) /\ UNCHANGED confirmed
    <3>1. CacheFits'
      BY <1>1, <2>4, SameCache DEF WidgetInv, cache
    <3>2. entry[g] + 1 =< MaxWrong /\ entry[g] + 1 \in Nat
      BY <1>6, <2>2 DEF Spent
    <3>3. miss \in Fetch
      <4>1. miss \in [step : {"miss"}, kind : {"verify"}, age : Ages, email : Addresses, wrong : Nat]
        BY <1>3, <3>2
      <4>2. QED
        BY <4>1 DEF Fetch
    <3>4. miss.step = "miss" /\ miss.wrong =< MaxWrong
      BY <3>2
    <3> HIDE DEF miss
    <3>5. QED
      BY <1>1, <2>4, <3>1, <3>3, <3>4, ServingFits
  <2>5. QED
    BY <1>4, <1>5, <2>3, <2>4 DEF CompareCode
<1>7. QED
  BY <1>4, <1>5, <1>6 DEF CompareCode

LEMMA CountWrongFits ==
  ASSUME WidgetInv, NEW f \in Fetches, CountWrong(f)
  PROVE  WidgetInv'
<1>1. /\ Works(f, "miss", Refused(f)) /\ fetch[f].step = "miss"
      /\ entry' = [entry EXCEPT ![Goal(f)] = fetch[f].wrong]
      /\ UNCHANGED <<mark, aadhaar, confirmed, records>>
  BY DEF CountWrong, Works
<1>2. fetch[f] \in Fetch /\ fetch[f].kind \in Asked
  BY <1>1, WorkOn
<1>3. fetch[f].wrong \in Nat /\ fetch[f].wrong =< MaxWrong /\ MaxWrong \in Nat
  BY <1>1, <1>2, FetchFields, WidgetAssumption DEF WidgetInv, FetchesFit, Right
<1>4. fetch[f].wrong \in 0 .. MaxWrong
  BY <1>3
<1>5. CacheFits'
  BY <1>1, <1>4, EntryFits DEF WidgetInv
<1>6. QED
  BY <1>1, <1>2, <1>5, AnsweringFits DEF Refused

LEMMA SetMarkFits ==
  ASSUME WidgetInv, NEW f \in Fetches, SetMark(f)
  PROVE  WidgetInv'
<1>1. /\ Works(f, "mark", Then(f, "clear")) /\ fetch[f].step = "mark"
      /\ mark' = [mark EXCEPT ![Goal(f)] = TRUE]
      /\ UNCHANGED <<entry, aadhaar, confirmed, records>>
  BY DEF SetMark, Works
<1>2. Goal(f) \in confirmed
  BY <1>1 DEF WidgetInv, FetchesFit, Right, Goal
<1>3. CacheFits'
  BY <1>1, <1>2, MarkFits DEF WidgetInv
<1>4. /\ Then(f, "clear") \in Fetch /\ Then(f, "clear").step = "clear"
      /\ Then(f, "clear").age = fetch[f].age /\ Then(f, "clear").email = fetch[f].email
  BY <1>1, ThenFits DEF WidgetInv, AtWork
<1>5. Recipient(Then(f, "clear")) \in confirmed'
  BY <1>1, <1>2, <1>4 DEF Goal, Recipient
<1>6. QED
  BY <1>1, <1>3, <1>4, <1>5, ServingFits

LEMMA DeleteCodeFits ==
  ASSUME WidgetInv, NEW f \in Fetches, DeleteCode(f)
  PROVE  WidgetInv'
<1>1. /\ \/ Works(f, "clear", Answer(fetch[f].kind, TRUE)) /\ fetch[f].step = "clear"
         \/ Works(f, "drop", Answer(fetch[f].kind, FALSE)) /\ fetch[f].step = "drop"
      /\ entry' = [entry EXCEPT ![Goal(f)] = None]
      /\ UNCHANGED <<mark, aadhaar, confirmed, records>>
  BY DEF DeleteCode, Works, Done, Refused
<1>2. fetch[f].kind \in Asked
  BY <1>1, WorkOn DEF AtWork
<1>3. CacheFits'
  BY <1>1, EntryFits DEF WidgetInv
<1>4. QED
  BY <1>1, <1>2, <1>3, AnsweringFits

LEMMA AadhaarFits ==
  ASSUME WidgetInv, NEW f \in Fetches,
         OpenTransaction(f) \/ CompareAadhaar(f) \/ CloseTransaction(f)
  PROVE  WidgetInv'
<1>1. UNCHANGED <<entry, mark, confirmed, records>>
  BY DEF OpenTransaction, CompareAadhaar, CloseTransaction
<1>2. aadhaar \in [open : BOOLEAN, verified : BOOLEAN]
  BY DEF WidgetInv, CacheFits
<1>3. \/ aadhaar' = aadhaar
      \/ \E b \in BOOLEAN : aadhaar' = [aadhaar EXCEPT !.open = b]
      \/ aadhaar' = [aadhaar EXCEPT !.verified = TRUE]
  BY DEF OpenTransaction, CompareAadhaar, CloseTransaction
<1>4. aadhaar' \in [open : BOOLEAN, verified : BOOLEAN]
  BY <1>2, <1>3
<1>5. CacheFits'
  BY <1>1, <1>4 DEF WidgetInv, CacheFits
<1>6. fetch[f].step \in {"initiate", "confirm", "confirmed"}
  BY DEF OpenTransaction, CompareAadhaar, CloseTransaction, Works
<1>7. fetch[f].kind \in Asked /\ fetch[f].step \in AtWork
  BY <1>6, WorkOn DEF AtWork, Asked
<1>8. CASE Works(f, "confirm", Then(f, "confirmed"))
  <2>1. Then(f, "confirmed") \in Fetch /\ Then(f, "confirmed").step = "confirmed"
    BY <1>7, ThenFits DEF WidgetInv, AtWork
  <2>2. QED
    BY <1>1, <1>5, <1>8, <2>1, ServingFits
<1>9. CASE \/ Works(f, "initiate", Answer(fetch[f].kind, TRUE))
           \/ Works(f, "confirm", Answer(fetch[f].kind, FALSE))
           \/ Works(f, "confirmed", Answer(fetch[f].kind, TRUE))
  BY <1>1, <1>5, <1>7, <1>9, AnsweringFits
<1>10. QED
  BY <1>8, <1>9 DEF OpenTransaction, CompareAadhaar, CloseTransaction, Done, Refused

\* The record is in the name of the address whose mark was asked for, or does not say
\* that a code was answered.
LEMMA MakeRecordFits ==
  ASSUME WidgetInv, NEW f \in Fetches, MakeRecord(f)
  PROVE  WidgetInv'
<1> DEFINE r   == fetch[f]
           row == [address |-> RecordedAs(r), verified |-> SaysVerified(r)]
<1>1. r.step = "record" /\ UNCHANGED cache
  BY DEF MakeRecord
<1>2. r \in Fetch /\ r.kind \in Asked /\ r.step \in AtWork
  BY <1>1, WorkOn DEF AtWork, Asked
<1>3. r.age \in Ages /\ r.email \in Addresses
  BY <1>2, FetchFields
<1>4. CacheFits' /\ confirmed' = confirmed
  BY <1>1, SameCache DEF WidgetInv
<1>5. CASE Works(f, "record", Refused(f)) /\ UNCHANGED records
  BY <1>2, <1>4, <1>5, AnsweringFits DEF Refused
<1>6. CASE /\ OtpNeeded(r.age) => Goal(f) # None /\ mark[Goal(f)]
           /\ Works(f, "record", Done(f))
           /\ records' = records \cup {row}
  <2>1. ~(template.parental /\ r.age = "none")
    BY <1>1 DEF WidgetInv, FetchesFit, Right
  <2>2. /\ RecordedAs(r) \in Addresses
        /\ SaysVerified(r) => OtpNeeded(r.age) /\ Goal(f) = RecordedAs(r)
    BY <1>3, <2>1, WidgetAssumption
    DEF RecordedAs, SaysVerified, OtpNeeded, BelowThreshold, Goal, Recipient, Ages
  <2>3. SaysVerified(r) => RecordedAs(r) \in confirmed
    BY <1>6, <2>2 DEF WidgetInv, CacheFits
  <2>4. SaysVerified(r) \in BOOLEAN
    BY DEF SaysVerified, BelowThreshold
  <2>5. row \in Record /\ (row.verified => row.address \in confirmed)
    BY <2>2, <2>3, <2>4 DEF Record
  <2> HIDE DEF row
  <2>6. RecordsFit'
    BY <1>4, <1>6, <2>5 DEF WidgetInv, RecordsFit, RecordedIsVerified
  <2>7. fetch' = [fetch EXCEPT ![f] = Done(f)] /\ UNCHANGED <<template, page, reopening, fetches>>
    BY <1>6 DEF Works
  <2>8. Done(f) \in Fetch /\ Done(f).step = "answer"
    BY <1>2, AnswersFit DEF Done
  <2>9. FetchesFit'
    <3>1. fetches' \in 0 .. MaxFetches
      BY <2>7 DEF WidgetInv, FetchesFit
    <3>2. QED
      BY <1>4, <2>7, <2>8, <3>1, AnsweredFits DEF WidgetInv
  <2>10. FormFits'
    BY <2>7 DEF WidgetInv, FormFits
  <2>11. QED
    BY <1>4, <2>6, <2>9, <2>10 DEF WidgetInv
<1>7. QED
  BY <1>5, <1>6 DEF MakeRecord

LEMMA ForgetFits ==
  ASSUME WidgetInv, Forget
  PROVE  WidgetInv'
<1>1. UNCHANGED <<template, page, reopening, fetch, fetches, confirmed, records>>
  BY DEF Forget
<1>2. CacheFits'
  <2>1. ASSUME NEW a \in Addresses, entry' = [entry EXCEPT ![a] = None], UNCHANGED <<mark, aadhaar>>
        PROVE  CacheFits'
    BY <1>1, <2>1, EntryFits DEF WidgetInv
  <2>2. ASSUME NEW a \in Addresses, mark' = [mark EXCEPT ![a] = FALSE], UNCHANGED <<entry, aadhaar>>
        PROVE  CacheFits'
    BY <1>1, <2>2, MarkFits DEF WidgetInv
  <2>3. ASSUME aadhaar' = [aadhaar EXCEPT !.verified = FALSE], UNCHANGED <<entry, mark>>
        PROVE  CacheFits'
    <3>1. aadhaar' \in [open : BOOLEAN, verified : BOOLEAN]
      BY <2>3 DEF WidgetInv, CacheFits
    <3>2. QED
      BY <1>1, <2>3, <3>1 DEF WidgetInv, CacheFits
  <2>4. QED
    BY <2>1, <2>2, <2>3 DEF Forget
<1>3. FetchesFit' /\ FormFits'
  BY <1>1 DEF WidgetInv, FetchesFit, FormFits, Right, Recipient, BelowThreshold
<1>4. RecordsFit'
  BY <1>1, SameRecords DEF WidgetInv
<1>5. QED
  BY <1>2, <1>3, <1>4 DEF WidgetInv

LEMMA AnswerComesFits ==
  ASSUME WidgetInv, NEW f \in Fetches, Hear(f) \/ Lose(f)
  PROVE  WidgetInv'
<1>1. UNCHANGED <<template, fetches, cache, records>>
  BY DEF Hear, Lose
<1>2. CacheFits' /\ confirmed' = confirmed /\ fetches' \in 0 .. MaxFetches
  BY <1>1, SameCache DEF WidgetInv, FetchesFit
<1>3. fetch[f] \in Fetch
  BY DEF WidgetInv, FetchesFit
<1>4. RecordsFit'
  BY <1>1, <1>2, SameRecords DEF WidgetInv
<1>5. CASE Hear(f)
  <2>1. fetch[f].step = "answer" /\ fetch[f].kind \in Asked \cup {"translate"} /\ fetch[f].ok \in BOOLEAN
    BY <1>3, <1>5, FetchFields DEF Hear
  <2>2. /\ page' = Heard(page, fetch[f]) /\ fetch' = [fetch EXCEPT ![f] = NoFetch]
        /\ reopening' = (reopening \/ fetch[f].kind = "translate")
    BY <1>5 DEF Hear
  <2>3. page' \in Page
    BY <2>1, <2>2, HeardFits DEF WidgetInv, FormFits
  <2>4. FormFits'
    BY <1>1, <2>2, <2>3 DEF WidgetInv, FormFits
  <2>5. FetchesFit'
    BY <1>1, <1>2, <2>2, IdleFits, AnsweredFits DEF WidgetInv
  <2>6. QED
    BY <1>2, <1>4, <2>4, <2>5 DEF WidgetInv
<1>6. CASE Lose(f)
  <2>1. /\ fetch[f].step \in Asked \cup {"answer"} /\ fetch[f].kind # "translate"
        /\ fetch' = [fetch EXCEPT ![f] = Refused(f)] /\ UNCHANGED <<page, reopening>>
    BY <1>6 DEF Lose, Asked
  <2>2. fetch[f].kind \in Asked
    BY <1>3, <2>1, FetchFields DEF AtWork
  <2>3. Refused(f) \in Fetch /\ Refused(f).step = "answer"
    BY <2>2, AnswersFit DEF Refused
  <2>4. FetchesFit'
    BY <1>1, <1>2, <2>1, <2>3, AnsweredFits DEF WidgetInv
  <2>5. FormFits'
    BY <1>1, <2>1 DEF WidgetInv, FormFits
  <2>6. QED
    BY <1>2, <1>4, <2>4, <2>5 DEF WidgetInv
<1>7. QED
  BY <1>5, <1>6

(***************************************************************************)
(* Every step.                                                             *)
(***************************************************************************)
LEMMA WidgetStart == WidgetInit => WidgetInv
<1> SUFFICES ASSUME WidgetInit PROVE WidgetInv
  OBVIOUS
<1>1. FormFits
  BY DEF WidgetInit, FormFits, Page, Ages
<1>2. CacheFits
  BY DEF WidgetInit, CacheFits
<1>3. FetchesFit
  BY IdleFits, WidgetAssumption DEF WidgetInit, FetchesFit, Right
<1>4. RecordsFit
  BY DEF WidgetInit, RecordsFit, RecordedIsVerified
<1>5. QED
  BY <1>1, <1>2, <1>3, <1>4 DEF WidgetInv

LEMMA WidgetStep == WidgetInv /\ [WidgetNext]_widgetVars => WidgetInv'
<1> SUFFICES ASSUME WidgetInv, [WidgetNext]_widgetVars PROVE WidgetInv'
  OBVIOUS
<1>1. CASE UNCHANGED widgetVars
  <2>1. FormFits' /\ Quiet
    BY <1>1 DEF widgetVars, WidgetInv, FormFits, Quiet
  <2>2. QED
    BY <2>1, FormMoveFits
<1>2. CASE Visitor
  BY <1>2, FormFit, AsksFit DEF Visitor
<1>3. CASE Server
  BY <1>3, StoreCodeFits, DropMarkFits, CompareCodeFits, CountWrongFits, SetMarkFits,
     DeleteCodeFits, AadhaarFits, MakeRecordFits
  DEF Server
<1>4. CASE Remove \/ Reopen \/ Forget
  BY <1>4, FormFit, ForgetFits
<1>5. CASE \E f \in Fetches : Hear(f) \/ Lose(f)
  BY <1>5, AnswerComesFits
<1>6. QED
  BY <1>1, <1>2, <1>3, <1>4, <1>5 DEF WidgetNext

LEMMA WidgetAlways == WidgetSpec => []WidgetInv
BY WidgetStart, WidgetStep, PTL DEF WidgetSpec

\* The form, the requests and the cache keep their types, and the wrong answers to a
\* code are within the limit, whatever requests overlap, are lost or come late.
THEOREM WidgetTypeCorrect == WidgetSpec => []WidgetTypeOK
<1>1. WidgetInv => WidgetTypeOK
  BY WidgetInvImplies
<1>2. QED
  BY <1>1, WidgetAlways, PTL

\* A consent whose record says that a code was answered was confirmed by the address
\* it is recorded under, the guardian's for a minor.
THEOREM RecordedAreVerified == WidgetSpec => []RecordedIsVerified
<1>1. WidgetInv => RecordedIsVerified
  BY WidgetInvImplies
<1>2. QED
  BY <1>1, WidgetAlways, PTL

------------------------------------------------------------------------------
(***************************************************************************)
(* The cookie banner: CookieBanner.                                        *)
(***************************************************************************)

LEMMA InitBannerTypes ==
  ASSUME CookieBannerInit PROVE CookieBannerTypeOK
BY CookieBannerAssumption DEF CookieBannerInit, CookieBannerTypeOK, Post

LEMMA PostIs ==
  ASSUME CookieBannerTypeOK, NEW n \in DOMAIN posts
  PROVE  /\ posts[n] \in Post
         /\ posts[n].status \in {"answered", "withdrawn"}
         /\ posts[n].page \in Pages
         /\ LoggedAs(posts[n].status) \in LogStatus
<1>1. posts[n] \in Post
  BY DEF CookieBannerTypeOK
<1>2. posts[n].status \in {"answered", "withdrawn"}
      /\ posts[n].page \in Pages
  BY <1>1 DEF Post
<1>3. QED
  BY <1>1, <1>2 DEF LoggedAs, LogStatus

LEMMA SendsTypes ==
  ASSUME CookieBannerTypeOK, NEW status \in {"answered", "withdrawn"},
         NEW p \in Pages, NEW during \in BOOLEAN,
         Sends(p, status, during)
  PROVE  /\ posts' \in Seq(Post)
         /\ DOMAIN posts' = DOMAIN posts \cup {Len(posts) + 1}
         /\ Len(posts) + 1 \notin DOMAIN posts /\ Len(posts) + 1 \in 1 .. MaxPosts
         /\ \A n \in DOMAIN posts : posts'[n] = posts[n] /\ n \in Nat /\ n # 0
         /\ posts'[Len(posts) + 1] = [status |-> status, page |-> p, during |-> during]
         /\ unlogged'.sent = unlogged.sent \cup {Len(posts) + 1} /\ unlogged'.lost = unlogged.lost
         /\ unlogged' \in [sent : SUBSET (1 .. MaxPosts), lost : SUBSET (1 .. MaxPosts)]
         /\ cookieLog' = cookieLog /\ left' = left
<1>1. posts \in Seq(Post) /\ Len(posts) \in Nat /\ Len(posts) + 1 \in 1 .. MaxPosts
  BY CookieBannerAssumption DEF Sends, CookieBannerTypeOK
<1>2. PICK post \in Post :
        post = [status |-> status, page |-> p, during |-> during]
  BY DEF Post
<1>3. posts' = Append(posts, post)
  BY <1>2 DEF Sends
<1>4. /\ posts' \in Seq(Post) /\ Len(posts') = Len(posts) + 1
      /\ \A n \in 1 .. Len(posts) : posts'[n] = posts[n]
      /\ posts'[Len(posts) + 1] = post
  BY <1>1, <1>3, AppendProperties
<1>5. DOMAIN posts = 1 .. Len(posts) /\ DOMAIN posts' = 1 .. Len(posts) + 1
  BY <1>1, <1>4
<1>6. /\ DOMAIN posts' = DOMAIN posts \cup {Len(posts) + 1} /\ Len(posts) + 1 \notin DOMAIN posts
      /\ \A n \in DOMAIN posts : posts'[n] = posts[n] /\ n \in Nat /\ n # 0
  BY <1>1, <1>4, <1>5
<1>7. QED
  BY <1>1, <1>2, <1>4, <1>6 DEF Sends, CookieBannerTypeOK

(***************************************************************************)
(* The inductive invariant.                                                *)
(***************************************************************************)
\* What is on its way or lost has been posted.
PostsKnown == unlogged.sent \cup unlogged.lost \subseteq DOMAIN posts

\* What a storage keeps has been posted, and is an answer.
StorageKnown ==
  \A p \in Pages : local[p] # 0 => local[p] \in DOMAIN posts /\ posts[local[p]].status # "withdrawn"

\* The log has the posts that arrived, and no others.
LogMatches ==
  \A i \in DOMAIN cookieLog :
    /\ cookieLog[i].post \in DOMAIN posts
    /\ cookieLog[i].status = LoggedAs(posts[cookieLog[i].post].status)
AllLogged ==
  \A n \in DOMAIN posts \ (unlogged.sent \cup unlogged.lost) :
    \E i \in DOMAIN cookieLog : cookieLog[i].post = n

\* A withdrawal on its way is waited for by its page, unless the page no longer does.
Withdrawal(w) == w \in DOMAIN posts /\ posts[w].status = "withdrawn"
OneWithdrawal == \A p \in withdrawing : awaited[p] = 0
WaitedFor ==
  \A w \in unlogged.sent \ left : Withdrawal(w) => awaited[posts[w].page] = w

\* What was withdrawn before the consent in the storage was given has been logged by
\* then, or is lost, and nothing is about to be withdrawn.
Follows(p, n) ==
  /\ Browser(p) \cap withdrawing = {}
  /\ \A w \in DOMAIN posts \ left :
       Withdrawal(w) /\ posts[w].page \in Browser(p) =>
         /\ w \notin unlogged.sent
         /\ \A i, j \in DOMAIN cookieLog :
              cookieLog[i].post = w /\ cookieLog[j].post = n => i < j
ConsentsFollow ==
  \A p \in Pages : local[p] # 0 /\ ~posts[local[p]].during => Follows(p, local[p])

LogInv == PostsKnown /\ StorageKnown /\ LogMatches /\ AllLogged
OrderInv == OneWithdrawal /\ WaitedFor /\ ConsentsFollow
BannerInv == CookieBannerTypeOK /\ LogInv /\ OrderInv

LEMMA BannerStarts ==
  ASSUME CookieBannerInit PROVE BannerInv
BY InitBannerTypes
   DEF CookieBannerInit, BannerInv, LogInv, OrderInv, PostsKnown, StorageKnown, LogMatches, AllLogged,
       OneWithdrawal, WaitedFor, ConsentsFollow

(***************************************************************************)
(* Answers.                                                                *)
(***************************************************************************)
\* An answer, or a withdrawal, is posted.
LEMMA SendsKeeps ==
  ASSUME BannerInv, NEW status \in {"answered", "withdrawn"},
         NEW p \in Pages, NEW during \in BOOLEAN,
         Sends(p, status, during)
  PROVE  (PostsKnown /\ LogMatches /\ AllLogged)'
<1>1. /\ DOMAIN posts' = DOMAIN posts \cup {Len(posts) + 1}
      /\ Len(posts) + 1 \notin DOMAIN posts
      /\ \A n \in DOMAIN posts : posts'[n] = posts[n]
      /\ unlogged'.sent = unlogged.sent \cup {Len(posts) + 1} /\ unlogged'.lost = unlogged.lost
      /\ cookieLog' = cookieLog
  BY SendsTypes DEF BannerInv
<1>2. PostsKnown' /\ LogMatches'
  BY <1>1 DEF BannerInv, LogInv, PostsKnown, LogMatches, LoggedAs
<1>3. AllLogged'
  BY <1>1 DEF BannerInv, LogInv, AllLogged
<1>4. QED
  BY <1>2, <1>3

\* The pages of one browser.
LEMMA BrowserProperties ==
  ASSUME NEW p \in Pages, NEW q \in Browser(p)
  PROVE  q \in Pages /\ Browser(q) = Browser(p) /\ p \in Browser(q)
BY DEF Browser

LEMMA SetConsentKeeps ==
  ASSUME BannerInv, NEW p \in Pages, SetConsent(p)
  PROVE  BannerInv'
<1> DEFINE n == Len(posts) + 1
           during == WithdrawalUnderWay(p)
<1>1. CookieBannerTypeOK /\ LogInv /\ OrderInv
  BY DEF BannerInv
<1>2. during \in BOOLEAN /\ Sends(p, "answered", during) /\ Stores(p, n)
      /\ UNCHANGED <<tabs, script, withdrawing, awaited, loads>>
      /\ shown' = [shown EXCEPT ![p] = "fading"]
  BY DEF SetConsent, WithdrawalUnderWay
<1>3. /\ posts' \in Seq(Post)
      /\ DOMAIN posts' = DOMAIN posts \cup {n} /\ n \notin DOMAIN posts /\ n \in 1 .. MaxPosts
      /\ \A m \in DOMAIN posts : posts'[m] = posts[m]
      /\ posts'[n] = [status |-> "answered", page |-> p, during |-> during]
      /\ unlogged'.sent = unlogged.sent \cup {n} /\ unlogged'.lost = unlogged.lost
      /\ unlogged' \in [sent : SUBSET (1 .. MaxPosts), lost : SUBSET (1 .. MaxPosts)]
      /\ cookieLog' = cookieLog /\ left' = left
  BY <1>1, <1>2, SendsTypes
<1> HIDE DEF n, during
<1>4. /\ local' \in [Pages -> 0 .. MaxPosts]
      /\ \A q \in Pages : local'[q] = IF q \in Browser(p) THEN n ELSE local[q]
  BY <1>1, <1>2, <1>3 DEF Stores, CookieBannerTypeOK
<1>5. CookieBannerTypeOK'
  BY <1>1, <1>2, <1>3, <1>4 DEF CookieBannerTypeOK
<1>6. posts'[n].status = "answered" /\ posts'[n].page = p /\ posts'[n].during = during
  BY <1>3
<1>7. PostsKnown' /\ LogMatches' /\ AllLogged'
  BY <1>2, SendsKeeps
<1>8. StorageKnown'
  BY <1>1, <1>3, <1>4, <1>6 DEF LogInv, StorageKnown
<1>9. \A w : Withdrawal(w)' <=> Withdrawal(w)
  BY <1>3, <1>6 DEF Withdrawal
<1>10. OneWithdrawal' /\ WaitedFor'
  BY <1>1, <1>2, <1>3, <1>6, <1>9 DEF OrderInv, OneWithdrawal, WaitedFor, Withdrawal
<1>11. ConsentsFollow'
  <2>1. SUFFICES ASSUME NEW q \in Pages, local'[q] # 0, ~posts'[local'[q]].during
                 PROVE  Follows(q, local[q])'
    BY DEF ConsentsFollow
  <2>2. Browser(q)' = Browser(q)
    BY <1>2 DEF Browser
  <2>3. CASE q \in Browser(p)
    <3>1. Browser(q) = Browser(p) /\ local'[q] = n /\ ~during
      BY <1>4, <1>6, <2>1, <2>3, BrowserProperties
    <3>2. \A r \in Browser(p) : r \notin withdrawing /\ awaited[r] \notin unlogged.sent
      BY <3>1 DEF during, WithdrawalUnderWay
    <3>3. \A w \in DOMAIN posts \ left :
            Withdrawal(w) /\ posts[w].page \in Browser(p) => w \notin unlogged.sent
      BY <1>1, <3>2 DEF OrderInv, WaitedFor
    <3>4. \A j \in DOMAIN cookieLog : cookieLog[j].post # n
      BY <1>1, <1>3 DEF LogInv, LogMatches
    <3>5. \A w \in DOMAIN posts' \ left' :
            Withdrawal(w) /\ posts'[w].page \in Browser(p) => w \notin unlogged'.sent
      BY <1>3, <3>3 DEF Withdrawal
    <3>6. QED
      BY <1>2, <1>3, <1>9, <2>2, <3>1, <3>2, <3>4, <3>5 DEF Follows
  <2>4. CASE q \notin Browser(p)
    <3>1. local'[q] = local[q] /\ local[q] \in DOMAIN posts /\ ~posts[local[q]].during
      BY <1>1, <1>3, <1>4, <2>1, <2>4 DEF LogInv, StorageKnown
    <3>2. Follows(q, local[q])
      BY <1>1, <2>1, <3>1 DEF OrderInv, ConsentsFollow
    <3>3. \A w \in DOMAIN posts' \ left' :
            Withdrawal(w) => w \in DOMAIN posts \ left /\ posts'[w] = posts[w] /\ w # n
      BY <1>3 DEF Withdrawal
    <3>4. QED
      BY <1>2, <1>3, <1>9, <2>2, <3>1, <3>2, <3>3 DEF Follows
  <2>5. QED
    BY <2>3, <2>4
<1>12. QED
  BY <1>5, <1>7, <1>8, <1>10, <1>11 DEF BannerInv, LogInv, OrderInv

LEMMA WithdrawalKeeps ==
  ASSUME BannerInv, NEW p \in Pages, PostWithdrawal(p)
  PROVE  BannerInv'
<1> DEFINE n == Len(posts) + 1
<1>1. CookieBannerTypeOK /\ LogInv /\ OrderInv
  BY DEF BannerInv
<1>2. /\ Sends(p, "withdrawn", FALSE) /\ p \in withdrawing /\ withdrawing' = withdrawing \ {p}
      /\ awaited' = [awaited EXCEPT ![p] = n]
      /\ UNCHANGED <<tabs, script, shown, local, loads>>
  BY DEF PostWithdrawal
<1>3. /\ posts' \in Seq(Post)
      /\ DOMAIN posts' = DOMAIN posts \cup {n} /\ n \notin DOMAIN posts /\ n \in 1 .. MaxPosts
      /\ \A m \in DOMAIN posts : posts'[m] = posts[m] /\ m # 0
      /\ posts'[n] = [status |-> "withdrawn", page |-> p, during |-> FALSE]
      /\ unlogged'.sent = unlogged.sent \cup {n} /\ unlogged'.lost = unlogged.lost
      /\ unlogged' \in [sent : SUBSET (1 .. MaxPosts), lost : SUBSET (1 .. MaxPosts)]
      /\ cookieLog' = cookieLog /\ left' = left
  BY <1>1, <1>2, SendsTypes
<1> HIDE DEF n
<1>4. posts'[n].page = p
  BY <1>3
<1>5. /\ awaited' \in [Pages -> 0 .. MaxPosts] /\ awaited'[p] = n
      /\ \A q \in Pages : q # p => awaited'[q] = awaited[q]
  BY <1>1, <1>2, <1>3 DEF CookieBannerTypeOK
<1>6. CookieBannerTypeOK'
  BY <1>1, <1>2, <1>3, <1>5 DEF CookieBannerTypeOK
<1>7. PostsKnown' /\ LogMatches' /\ AllLogged'
  BY <1>2, SendsKeeps
<1>8. StorageKnown'
  BY <1>1, <1>2, <1>3 DEF LogInv, StorageKnown
<1>9. OneWithdrawal' /\ awaited[p] = 0
  BY <1>1, <1>2, <1>5 DEF OrderInv, OneWithdrawal, CookieBannerTypeOK
<1>10. WaitedFor'
  <2>1. SUFFICES ASSUME NEW w \in unlogged'.sent \ left', Withdrawal(w)'
                 PROVE  awaited'[posts'[w].page] = w
    BY DEF WaitedFor
  <2>2. CASE w = n
    BY <1>4, <1>5, <2>2
  <2>3. CASE w # n
    <3>1. w \in unlogged.sent \ left /\ Withdrawal(w) /\ posts'[w] = posts[w] /\ w # 0
      BY <1>3, <2>1, <2>3 DEF Withdrawal
    <3>2. posts[w].page \in Pages
      BY <1>1, <3>1, PostIs DEF Withdrawal
    <3>3. QED
      BY <1>1, <1>5, <1>9, <3>1, <3>2 DEF OrderInv, WaitedFor
  <2>4. QED
    BY <2>2, <2>3
<1>11. ConsentsFollow'
  <2>1. SUFFICES ASSUME NEW q \in Pages, local'[q] # 0, ~posts'[local'[q]].during
                 PROVE  Follows(q, local[q])'
    BY DEF ConsentsFollow
  <2>2. Browser(q)' = Browser(q)
    BY <1>2 DEF Browser
  <2>3. local'[q] = local[q] /\ local[q] \in DOMAIN posts /\ ~posts[local[q]].during
    BY <1>1, <1>2, <1>3, <2>1 DEF LogInv, StorageKnown
  <2>4. Follows(q, local[q])
    BY <1>1, <2>1, <2>3 DEF OrderInv, ConsentsFollow
  <2>5. p \notin Browser(q)
    BY <1>2, <2>4 DEF Follows
  <2>6. \A w \in DOMAIN posts' \ left' :
          Withdrawal(w)' /\ posts'[w].page \in Browser(q) =>
            w \in DOMAIN posts \ left /\ Withdrawal(w) /\ posts'[w] = posts[w] /\ w # n
    BY <1>3, <1>4, <2>5 DEF Withdrawal
  <2>7. QED
    BY <1>2, <1>3, <2>2, <2>3, <2>4, <2>6 DEF Follows
<1>12. QED
  BY <1>6, <1>7, <1>8, <1>9, <1>10, <1>11 DEF BannerInv, LogInv, OrderInv

(***************************************************************************)
(* Posts arrive or are lost.                                               *)
(***************************************************************************)
LEMMA RecordKeeps ==
  ASSUME BannerInv, NEW n \in 1 .. MaxPosts, RecordPublicConsent(n)
  PROVE  BannerInv'
<1>1. CookieBannerTypeOK /\ LogInv /\ OrderInv
  BY DEF BannerInv
<1>2. /\ n \in DOMAIN posts /\ n \in unlogged.sent
      /\ UNCHANGED <<tabs, script, withdrawing, awaited, shown, local, posts, left, loads>>
      /\ unlogged'.sent = unlogged.sent \ {n} /\ unlogged'.lost = unlogged.lost
      /\ unlogged' \in [sent : SUBSET (1 .. MaxPosts), lost : SUBSET (1 .. MaxPosts)]
  BY <1>1 DEF LogInv, PostsKnown, CookieBannerTypeOK, RecordPublicConsent, pageVars
<1> DEFINE Entries == [post : 1 .. MaxPosts, status : LogStatus]
<1>3. PICK logged \in Entries :
        logged = [post |-> n, status |-> LoggedAs(posts[n].status)]
  BY <1>1, <1>2, PostIs
<1>4. cookieLog \in Seq(Entries) /\ cookieLog' = Append(cookieLog, logged)
  BY <1>1, <1>3 DEF CookieBannerTypeOK, RecordPublicConsent
<1> HIDE DEF Entries
<1>5. /\ cookieLog' \in Seq(Entries) /\ Len(cookieLog') = Len(cookieLog) + 1
      /\ \A i \in 1 .. Len(cookieLog) : cookieLog'[i] = cookieLog[i]
      /\ cookieLog'[Len(cookieLog) + 1] = logged
      /\ Len(cookieLog) \in Nat
      /\ DOMAIN cookieLog = 1 .. Len(cookieLog) /\ DOMAIN cookieLog' = 1 .. Len(cookieLog')
  BY <1>4, AppendProperties
<1>6. PICK last : last = Len(cookieLog) + 1
  OBVIOUS
<1>7. /\ DOMAIN cookieLog' = DOMAIN cookieLog \cup {last}
      /\ cookieLog'[last] = logged
      /\ \A i \in DOMAIN cookieLog : cookieLog'[i] = cookieLog[i] /\ i < last
  BY <1>5, <1>6
<1>8. logged.post = n /\ logged.status = LoggedAs(posts[n].status)
  BY <1>3
<1>9. CookieBannerTypeOK'
  BY <1>1, <1>2, <1>5 DEF Entries, CookieBannerTypeOK
<1>10. PostsKnown' /\ StorageKnown'
  BY <1>1, <1>2 DEF LogInv, PostsKnown, StorageKnown
<1>11. LogMatches'
  BY <1>1, <1>2, <1>7, <1>8 DEF LogInv, LogMatches, LoggedAs
<1>12. AllLogged'
  <2>1. SUFFICES ASSUME NEW m \in DOMAIN posts \ (unlogged'.sent \cup unlogged'.lost)
                 PROVE  \E i \in DOMAIN cookieLog' : cookieLog'[i].post = m
    BY <1>2 DEF AllLogged
  <2>2. CASE m = n
    BY <1>7, <1>8, <2>2
  <2>3. CASE m # n
    BY <1>1, <1>2, <1>7, <2>3 DEF LogInv, AllLogged
  <2>4. QED
    BY <2>2, <2>3
<1>13. OneWithdrawal' /\ WaitedFor'
  BY <1>1, <1>2 DEF OrderInv, OneWithdrawal, WaitedFor, Withdrawal
<1>14. ConsentsFollow'
  <2>1. SUFFICES ASSUME NEW p \in Pages, local[p] # 0, ~posts[local[p]].during
                 PROVE  Follows(p, local[p])'
    BY <1>2 DEF ConsentsFollow
  <2>2. Follows(p, local[p]) /\ posts[local[p]].status # "withdrawn"
    BY <1>1, <2>1 DEF OrderInv, ConsentsFollow, LogInv, StorageKnown
  <2>3. ASSUME NEW w \in DOMAIN posts \ left, Withdrawal(w), posts[w].page \in Browser(p),
               NEW i \in DOMAIN cookieLog', NEW j \in DOMAIN cookieLog',
               cookieLog'[i].post = w, cookieLog'[j].post = local[p]
        PROVE  i < j
    <3>1. w \notin unlogged.sent /\ w # local[p]
      BY <2>2, <2>3 DEF Follows, Withdrawal
    <3>2. i # last
      BY <1>2, <1>7, <1>8, <2>3, <3>1
    <3>3. CASE j = last
      BY <1>7, <3>2, <3>3
    <3>4. CASE j # last
      BY <1>7, <2>2, <2>3, <3>2, <3>4 DEF Follows
    <3>5. QED
      BY <3>3, <3>4
  <2>4. \A w : Withdrawal(w)' <=> Withdrawal(w)
    BY <1>2 DEF Withdrawal
  <2>5. Browser(p)' = Browser(p)
    BY <1>2 DEF Browser
  <2>6. QED
    BY <1>2, <2>2, <2>3, <2>4, <2>5 DEF Follows
<1>15. QED
  BY <1>9, <1>10, <1>11, <1>12, <1>13, <1>14 DEF BannerInv, LogInv, OrderInv

LEMMA LoseKeeps ==
  ASSUME BannerInv, NEW n \in 1 .. MaxPosts, LosePost(n)
  PROVE  BannerInv'
<1>1. CookieBannerTypeOK /\ LogInv /\ OrderInv
  BY DEF BannerInv
<1>2. /\ n \in unlogged.sent
      /\ UNCHANGED <<tabs, script, withdrawing, awaited, shown, local, posts, left, cookieLog, loads>>
      /\ unlogged'.sent = unlogged.sent \ {n} /\ unlogged'.lost = unlogged.lost \cup {n}
      /\ unlogged' \in [sent : SUBSET (1 .. MaxPosts), lost : SUBSET (1 .. MaxPosts)]
  BY <1>1 DEF LosePost, pageVars, CookieBannerTypeOK
<1>3. CookieBannerTypeOK'
  BY <1>1, <1>2 DEF CookieBannerTypeOK
<1>4. LogInv'
  BY <1>1, <1>2 DEF LogInv, PostsKnown, StorageKnown, LogMatches, AllLogged, LoggedAs
<1>5. OneWithdrawal' /\ WaitedFor'
  BY <1>1, <1>2 DEF OrderInv, OneWithdrawal, WaitedFor, Withdrawal
<1>6. ConsentsFollow'
  BY <1>1, <1>2 DEF OrderInv, ConsentsFollow, Follows, Withdrawal, Browser
<1>7. QED
  BY <1>3, <1>4, <1>5, <1>6 DEF BannerInv, OrderInv

(***************************************************************************)
(* The other steps post nothing, and only empty a storage.                 *)
(***************************************************************************)
\* A page withdraws only when the storage is empty, and stops waiting only for what is
\* logged, lost or left.
LEMMA BannerQuietKeeps ==
  ASSUME BannerInv, CookieBannerTypeOK', UNCHANGED <<tabs, posts, unlogged, cookieLog>>,
         left \subseteq left',
         \A q \in Pages : local'[q] = 0 \/ local'[q] = local[q],
         \A q \in Pages, r \in withdrawing' \ withdrawing : r \in Browser(q) => local'[q] = 0,
         \A q \in withdrawing' : awaited'[q] = 0,
         \A q \in Pages : awaited'[q] = awaited[q] \/ awaited[q] \notin unlogged.sent \ left'
  PROVE  BannerInv'
<1>1. LogInv'
  BY DEF BannerInv, LogInv, PostsKnown, StorageKnown, LogMatches, AllLogged, LoggedAs
<1>2. OneWithdrawal'
  BY DEF OneWithdrawal
<1>3. WaitedFor'
  <2>1. SUFFICES ASSUME NEW w \in unlogged.sent \ left', Withdrawal(w)
                 PROVE  awaited'[posts[w].page] = w
    BY DEF WaitedFor, Withdrawal
  <2>2. posts[w].page \in Pages
    BY <2>1, PostIs DEF BannerInv, Withdrawal
  <2>3. awaited[posts[w].page] = w
    BY <2>1 DEF BannerInv, OrderInv, WaitedFor
  <2>4. QED
    BY <2>2, <2>3
<1>4. ConsentsFollow'
  <2>1. SUFFICES ASSUME NEW q \in Pages, local'[q] # 0, ~posts[local'[q]].during
                 PROVE  Follows(q, local[q])'
    BY DEF ConsentsFollow
  <2>2. local'[q] = local[q] /\ Follows(q, local[q])
    BY <2>1 DEF BannerInv, OrderInv, ConsentsFollow
  <2>3. Browser(q)' = Browser(q) /\ \A w : Withdrawal(w)' <=> Withdrawal(w)
    BY DEF Browser, Withdrawal
  <2>4. Browser(q) \cap withdrawing' = {}
    BY <2>1, <2>2 DEF Follows
  <2>5. QED
    BY <2>2, <2>3, <2>4 DEF Follows
<1>5. QED
  BY <1>1, <1>2, <1>3, <1>4 DEF BannerInv, OrderInv

\* In particular when no withdrawal moves.
LEMMA BannerStillKeeps ==
  ASSUME BannerInv, CookieBannerTypeOK', UNCHANGED <<tabs, withdrawing, awaited, postVars>>,
         \A q \in Pages : local'[q] = 0 \/ local'[q] = local[q]
  PROVE  BannerInv'
<1>1. \A q \in withdrawing' : awaited'[q] = 0
  BY DEF BannerInv, OrderInv, OneWithdrawal
<1>2. QED
  BY <1>1, BannerQuietKeeps DEF postVars

LEMMA BannerStep ==
  ASSUME BannerInv, [CookieBannerNext]_bannerVars PROVE BannerInv'
<1> USE DEF pageVars
<1>1. CookieBannerTypeOK /\ \A q \in withdrawing : awaited[q] = 0
  BY DEF BannerInv, OrderInv, OneWithdrawal
<1>2. ASSUME NEW p \in Pages, NEW active \in SUBSET {"website", "global"}, LoadPage(p, active)
      PROVE  BannerInv'
  <2>1. CookieBannerTypeOK' /\ UNCHANGED <<tabs, local, posts, unlogged, cookieLog>>
    <3>1. /\ unlogged.sent \subseteq 1 .. MaxPosts /\ left \subseteq 1 .. MaxPosts
          /\ awaited \in [Pages -> 0 .. MaxPosts] /\ 0 \in 0 .. MaxPosts
      BY <1>1, CookieBannerAssumption DEF CookieBannerTypeOK
    <3>2. left' \subseteq 1 .. MaxPosts /\ awaited' \in [Pages -> 0 .. MaxPosts]
      BY <1>2, <3>1 DEF LoadPage
    <3>3. loads' \in 0 .. MaxLoads
      BY <1>1, <1>2, CookieBannerAssumption DEF LoadPage, CookieBannerTypeOK
    <3>4. QED
      BY <1>1, <1>2, <3>2, <3>3 DEF LoadPage, Reaches, CookieBannerTypeOK
  <2>2. /\ withdrawing' = withdrawing \ {p} /\ awaited' = [awaited EXCEPT ![p] = 0]
        /\ left' = left \cup ({awaited[p]} \cap unlogged.sent)
    BY <1>2 DEF LoadPage
  <2>3. \A q \in Pages : awaited'[q] = IF q = p THEN 0 ELSE awaited[q]
    BY <1>1, <2>2 DEF CookieBannerTypeOK
  <2>4. \A q \in withdrawing' : awaited'[q] = 0
    BY <1>1, <2>2, <2>3 DEF CookieBannerTypeOK
  <2>5. \A q \in Pages : awaited'[q] = awaited[q] \/ awaited[q] \notin unlogged.sent \ left'
    BY <2>2, <2>3
  <2>6. QED
    BY <2>1, <2>2, <2>4, <2>5, BannerQuietKeeps
<1>3. ASSUME NEW p \in Pages, ResolveVisitor(p) \/ AskStatus(p) \/ ShowBanner(p) \/ RemoveBanner(p)
      PROVE  BannerInv'
  <2>1. CookieBannerTypeOK' /\ UNCHANGED <<tabs, withdrawing, awaited, local, postVars>>
    BY <1>1, <1>3
       DEF ResolveVisitor, AskStatus, ShowBanner, RemoveBanner, Reaches, InitBanner,
           CookieBannerTypeOK, postVars
  <2>2. QED
    BY <2>1, BannerStillKeeps
<1>4. ASSUME NEW p \in Pages, ShowAgain(p)
      PROVE  BannerInv'
  <2>1. CookieBannerTypeOK' /\ UNCHANGED <<tabs, withdrawing, local, posts, unlogged, cookieLog>>
    <3>1. /\ unlogged.sent \subseteq 1 .. MaxPosts /\ left \subseteq 1 .. MaxPosts
          /\ awaited \in [Pages -> 0 .. MaxPosts] /\ 0 \in 0 .. MaxPosts
      BY <1>1, CookieBannerAssumption DEF CookieBannerTypeOK
    <3>2. left' \subseteq 1 .. MaxPosts /\ awaited' \in [Pages -> 0 .. MaxPosts]
      BY <1>4, <3>1 DEF ShowAgain
    <3>3. shown' \in [Pages -> {"absent", "shown", "fading"}]
      BY <1>1, <1>4 DEF ShowAgain, InitBanner, CookieBannerTypeOK
    <3>4. QED
      BY <1>1, <1>4, <3>2, <3>3 DEF ShowAgain, CookieBannerTypeOK
  <2>2. /\ awaited' = [awaited EXCEPT ![p] = 0] /\ left \subseteq left'
        /\ awaited[p] \notin unlogged.sent \ left'
    BY <1>4 DEF ShowAgain
  <2>3. \A q \in Pages : awaited'[q] = IF q = p THEN 0 ELSE awaited[q]
    BY <1>1, <2>2 DEF CookieBannerTypeOK
  <2>4. \A q \in withdrawing' : awaited'[q] = 0
    BY <1>1, <2>1, <2>3 DEF CookieBannerTypeOK
  <2>5. QED
    BY <2>1, <2>2, <2>3, <2>4, BannerQuietKeeps
<1>5. ASSUME NEW p \in Pages, HearStatus(p) \/ WithdrawStored(p)
      PROVE  BannerInv'
  <2>1. Stores(p, 0) /\ UNCHANGED <<tabs, awaited, postVars>>
    BY <1>5 DEF HearStatus, WithdrawStored
  <2>2. /\ local' \in [Pages -> 0 .. MaxPosts]
        /\ \A q \in Pages : local'[q] = IF q \in Browser(p) THEN 0 ELSE local[q]
    BY <1>1, <2>1, CookieBannerAssumption DEF Stores, CookieBannerTypeOK
  <2>3. CookieBannerTypeOK'
    BY <1>1, <1>5, <2>2
       DEF HearStatus, WithdrawStored, Reaches, InitBanner, CookieBannerTypeOK, postVars
  <2>4. CASE HearStatus(p)
    BY <2>1, <2>2, <2>3, <2>4, BannerStillKeeps DEF HearStatus
  <2>5. CASE WithdrawStored(p)
    <3>1. withdrawing' = withdrawing \cup {p} /\ awaited[p] = 0
      BY <2>5 DEF WithdrawStored
    <3>2. \A q \in Pages : p \in Browser(q) => q \in Browser(p)
      BY BrowserProperties
    <3>3. QED
      BY <1>1, <2>1, <2>2, <2>3, <3>1, <3>2, BannerQuietKeeps DEF postVars
  <2>6. QED
    BY <1>5, <2>4, <2>5
<1>6. ASSUME NEW p \in Pages, SetConsent(p)
      PROVE  BannerInv'
  BY <1>6, SetConsentKeeps
<1>7. CASE UNCHANGED bannerVars
  BY <1>1, <1>7, BannerStillKeeps DEF bannerVars, CookieBannerTypeOK, postVars
<1>8. QED
  BY <1>2, <1>3, <1>4, <1>5, <1>6, <1>7, WithdrawalKeeps, RecordKeeps, LoseKeeps
     DEF CookieBannerNext

LEMMA LastIsEarlier ==
  ASSUME BannerInv PROVE StoredConsentStands
<1> DEFINE n(p) == local[p]
           last == cookieLog[Len(cookieLog)].post
<1>1. CookieBannerTypeOK /\ LogInv /\ OrderInv
  BY DEF BannerInv
<1>2. SUFFICES ASSUME NEW p \in Pages,
                      n(p) \notin {0} \cup unlogged.sent \cup unlogged.lost,
                      LastStatus = "WITHDRAWN", posts[last].page \in Browser(p),
                      ~posts[n(p)].during, last \notin left
               PROVE  FALSE
  BY DEF StoredConsentStands
<1>3. /\ Len(cookieLog) \in Nat /\ DOMAIN cookieLog = 1 .. Len(cookieLog)
      /\ Len(cookieLog) \in DOMAIN cookieLog /\ cookieLog[Len(cookieLog)].status = "WITHDRAWN"
  <2>1. cookieLog # <<>>
    BY <1>2 DEF LastStatus
  <2>2. PICK S : cookieLog \in Seq(S)
    BY <1>1 DEF CookieBannerTypeOK
  <2>3. Len(cookieLog) \in Nat /\ DOMAIN cookieLog = 1 .. Len(cookieLog) /\ Len(cookieLog) # 0
    BY <2>1, <2>2, EmptySeq
  <2>4. QED
    BY <1>2, <2>1, <2>3 DEF LastStatus
<1>4. Withdrawal(last)
  <2>1. last \in DOMAIN posts /\ LoggedAs(posts[last].status) = "WITHDRAWN"
    BY <1>1, <1>3 DEF LogInv, LogMatches
  <2>2. posts[last].status \in {"answered", "withdrawn"}
    BY <1>1, <2>1, PostIs
  <2>3. QED
    BY <2>1, <2>2 DEF LoggedAs, Withdrawal
<1>5. PICK j \in DOMAIN cookieLog : cookieLog[j].post = n(p)
  BY <1>1, <1>2 DEF LogInv, StorageKnown, AllLogged
<1>6. Len(cookieLog) < j
  BY <1>1, <1>2, <1>3, <1>4, <1>5 DEF OrderInv, ConsentsFollow, Follows, Withdrawal
<1>7. QED
  BY <1>3, <1>5, <1>6

\* Whatever the order the posts arrive in, and whether pages share a storage or only an
\* address: a consent that was given with no withdrawal under way, and has been logged,
\* is not taken from the storage for an earlier withdrawal of its browser, unless the
\* page that withdrew did not hear the answer.
THEOREM ConsentsStand == CookieBannerSpec => [](CookieBannerTypeOK /\ StoredConsentStands)
<1>1. CookieBannerInit => BannerInv
  BY BannerStarts
<1>2. BannerInv /\ [CookieBannerNext]_bannerVars => BannerInv'
  BY BannerStep
<1>3. BannerInv => CookieBannerTypeOK /\ StoredConsentStands
  BY LastIsEarlier DEF BannerInv
<1>4. QED
  BY <1>1, <1>2, <1>3, PTL DEF CookieBannerSpec

------------------------------------------------------------------------------
(***************************************************************************)
(* Notices, their visitors and the languages: Notices.                     *)
(***************************************************************************)

NoticeTypes ==
  /\ notice \in Notice
  /\ DOMAIN versions \subseteq 1 .. MaxEdits + 1 /\ Range(versions) \subseteq Texts
  /\ edit \in [Authors -> Edit]
  /\ edits \in 0 .. MaxEdits
  /\ aborts \in 0 .. MaxAborts
  /\ overlapped \in BOOLEAN

VisitTypes ==
  /\ visitor \in PageStates
  /\ visits \in 0 .. MaxVisits
  /\ acknowledged \subseteq Sent
  /\ ack \in Ack
  /\ ofVisit \in BOOLEAN

LanguageTypes ==
  /\ languageIs \in [Languages -> {"none", "plain", "default"}]
  /\ setting \in [Linguists -> Setting]
  /\ settings \in 0 .. MaxSettings

\* What an edit goes by: the notice is there, the version it read is not ahead of the
\* current one, and the row it has made is the one after it.
EditFits(a) ==
  /\ edit[a] # NoEdit => notice.version > 0
  /\ edit[a].step = "created" => 1 \notin DOMAIN versions
  /\ edit[a].step \in {"read", "written", "numbered"} => edit[a].from \in 1 .. notice.version
  /\ edit[a].step = "numbered" =>
       edit[a].from = notice.version /\ notice.version + 1 \in DOMAIN versions

\* One edit makes the notice, and one at a time has made the next version.
StepsAlone ==
  \A a, b \in Authors :
    edit[a].step = edit[b].step /\ edit[a].step \in {"created", "numbered"} => a = b

RowsRun ==
  /\ notice.version = 0 => DOMAIN versions = {} /\ edits = 0
  /\ notice.version > 0 =>
       /\ 2 .. notice.version \subseteq DOMAIN versions
       /\ DOMAIN versions \subseteq 1 .. notice.version + 1

\* A row that is missing or ahead is owed by an edit in flight, unless one broke off.
RowsOwed ==
  aborts = 0 /\ notice.version > 0 =>
    /\ 1 \in DOMAIN versions \/ \E a \in Authors : edit[a].step = "created"
    /\ notice.version + 1 \in DOMAIN versions => \E a \in Authors : edit[a].step = "numbered"

Writing == {a \in Authors : edit[a].step \in {"read", "written", "numbered"}}

\* Every version after the first takes an edit.
VersionsCounted == notice.version > 0 => notice.version + Cardinality(Writing) =< edits

\* The text a lone edit goes by.
TextFits(a) ==
  /\ edit[a].step = "created" => notice.version = 1 /\ notice.text = edit[a].text
  /\ edit[a].step \in {"read", "written"} => edit[a].from = notice.version
  /\ edit[a].step = "read" =>
       notice.version \in DOMAIN versions /\ edit[a].old = notice.text
       /\ versions[notice.version] = notice.text
  /\ edit[a].step = "written" => notice.text = edit[a].text
  /\ edit[a].step = "numbered" => versions[notice.version + 1] = notice.text

EditsTidy ==
  aborts = 0 /\ ~overlapped =>
    /\ \A a, b \in Authors : edit[a] # NoEdit /\ edit[b] # NoEdit => a = b
    /\ \A a \in Authors : TextFits(a)
    /\ (\A a \in Authors : edit[a] = NoEdit) /\ notice.version > 0 =>
         notice.version \in DOMAIN versions /\ versions[notice.version] = notice.text

EditsInv ==
  /\ NoticeTypes
  /\ \A a \in Authors : EditFits(a)
  /\ StepsAlone
  /\ RowsRun
  /\ RowsOwed
  /\ VersionsCounted
  /\ EditsTidy

\* What a page was served: a version that was current, and, if nothing went wrong, its text.
SeenFits(seen) ==
  /\ seen.version =< notice.version
  /\ seen.settled /\ aborts = 0 /\ ~overlapped =>
       seen.version \in DOMAIN versions /\ versions[seen.version] = seen.text

VisitsInv ==
  /\ VisitTypes
  /\ visitor # Nothing => SeenFits(visitor.notice)
  /\ \A post \in acknowledged : SeenFits(post.notice)
  /\ ack # NoAck => SeenFits(ack.seen) /\ ack.version >= ack.seen.version

\* Each default was set by a linguist of its own, who has seen those set before.
SetBy(owner) ==
  /\ \A l, m \in Defaults : owner[l] = owner[m] => l = m
  /\ \A l \in Defaults :
       setting[owner[l]] # NoSetting /\ setting[owner[l]].default => l \in setting[owner[l]].clears

DefaultsOwned == \E owner \in [Defaults -> Linguists] : SetBy(owner)

LanguagesInv == LanguageTypes /\ DefaultsOwned

NoticesInv == EditsInv /\ VisitsInv /\ LanguagesInv

LEMMA EditIs ==
  ASSUME NoticeTypes, NEW a \in Authors
  PROVE  /\ edit[a] = NoEdit <=> edit[a].step = "idle"
         /\ edit[a].step \in {"idle", "created", "read", "written", "numbered"}
         /\ edit[a].step = "created" => edit[a].text \in Texts
         /\ edit[a].step \in {"read", "written", "numbered"} =>
              edit[a] \in [step : {"read", "written", "numbered"}, from : Nat, text : Texts,
                           writes : BOOLEAN, old : Texts]
<1>1. edit[a] \in Edit
  BY DEF NoticeTypes
<1>2. QED
  BY <1>1 DEF Edit, NoEdit

LEMMA EditMoves ==
  ASSUME NoticeTypes, NEW a \in Authors, NEW to \in Edit, edit' = [edit EXCEPT ![a] = to]
  PROVE  /\ edit' \in [Authors -> Edit] /\ edit'[a] = to
         /\ \A b \in Authors \ {a} : edit'[b] = edit[b]
BY DEF NoticeTypes

LEMMA NoEditIs == NoEdit \in Edit /\ NoEdit.step = "idle"
BY DEF Edit, NoEdit

LEMMA NoticeIs ==
  ASSUME NoticeTypes
  PROVE  /\ notice.version \in Nat
         /\ notice = NoNotice <=> notice.version = 0
         /\ notice # NoNotice => notice \in [version : Nat \ {0}, text : Texts]
BY DEF NoticeTypes, Notice, NoNotice

LEMMA WritingChanges ==
  ASSUME NoticeTypes, NEW a \in Authors, NEW to \in Edit, edit' = [edit EXCEPT ![a] = to]
  PROVE  LET before == edit[a].step \in {"read", "written", "numbered"}
             now == to.step \in {"read", "written", "numbered"}
         IN
         /\ Cardinality(Writing) \in Nat /\ Cardinality(Writing') \in Nat
         /\ (before <=> now) => Cardinality(Writing') = Cardinality(Writing)
         /\ now /\ ~before => Cardinality(Writing') = Cardinality(Writing) + 1
         /\ before /\ ~now => Cardinality(Writing') = Cardinality(Writing) - 1
         /\ (now => before) => Cardinality(Writing') =< Cardinality(Writing)
<1>1. PICK was, is : was = Writing /\ is = Writing'
  OBVIOUS
<1>2. edit'[a] = to /\ \A b \in Authors \ {a} : edit'[b] = edit[b]
  BY EditMoves
<1>3. was \subseteq Authors /\ is \subseteq Authors
  BY <1>1 DEF Writing
<1>4. IsFiniteSet(was) /\ IsFiniteSet(is)
  BY <1>3, NoticesAssumption, FS_Subset
<1>5. Cardinality(was) \in Nat /\ Cardinality(is) \in Nat
  BY <1>4, FS_CardinalityType
<1>6. a \in was <=> edit[a].step \in {"read", "written", "numbered"}
  BY <1>1 DEF Writing
<1>7. a \in is <=> to.step \in {"read", "written", "numbered"}
  BY <1>1, <1>2 DEF Writing
<1>8. \A b \in Authors \ {a} : b \in is <=> b \in was
  BY <1>1, <1>2 DEF Writing
<1>9. a \in was /\ a \in is => is = was
  BY <1>3, <1>8
<1>10. a \notin was /\ a \notin is => is = was
  BY <1>3, <1>8
<1>11. a \notin was /\ a \in is => Cardinality(is) = Cardinality(was) + 1
  <2>1. a \in is => is = was \cup {a}
    BY <1>3, <1>8
  <2>2. QED
    BY <1>4, <2>1, FS_AddElement
<1>12. a \in was /\ a \notin is => Cardinality(is) = Cardinality(was) - 1
  <2>1. a \notin is => is = was \ {a}
    BY <1>3, <1>8
  <2>2. QED
    BY <1>4, <2>1, FS_RemoveElement
<1>13. (a \in is => a \in was) => Cardinality(is) =< Cardinality(was)
  <2>1. CASE a \in was <=> a \in is
    BY <1>5, <1>9, <1>10, <2>1
  <2>2. CASE a \in was /\ a \notin is
    BY <1>5, <1>12, <2>2
  <2>3. QED
    BY <2>1, <2>2
<1>14. QED
  BY <1>1, <1>5, <1>6, <1>7, <1>9, <1>10, <1>11, <1>12, <1>13

LEMMA RowAdded ==
  ASSUME NoticeTypes, NEW n, NEW text \in Texts, versions' = WithVersion(n, text)
  PROVE  /\ DOMAIN versions' = DOMAIN versions \cup {n}
         /\ versions'[n] = text
         /\ \A m \in DOMAIN versions : m # n => versions'[m] = versions[m]
         /\ Range(versions') \subseteq Texts
BY DEF NoticeTypes, WithVersion, Range

\* What no edit undoes.
NoticeGrows ==
  /\ notice.version =< notice'.version
  /\ aborts' = 0 => aborts = 0
  /\ ~overlapped' => ~overlapped
  /\ \A v \in DOMAIN versions : v \in DOMAIN versions' /\ versions'[v] = versions[v]

LEMMA EditsStart ==
  ASSUME NoticesInit PROVE EditsInv
<1>1. notice.version = 0 /\ notice = NoNotice
  BY DEF NoticesInit, NoNotice
<1>2. DOMAIN versions = {} /\ Range(versions) = {}
  BY DEF NoticesInit, Range
<1>3. \A a \in Authors : edit[a] = NoEdit /\ edit[a].step = "idle"
  BY NoEditIs DEF NoticesInit
<1>4. NoticeTypes
  <2>1. 0 \in 0 .. MaxEdits /\ 0 \in 0 .. MaxAborts
    BY NoticesAssumption
  <2>2. edit \in [Authors -> Edit]
    BY NoEditIs DEF NoticesInit
  <2>3. overlapped \in BOOLEAN /\ edits = 0 /\ aborts = 0 /\ notice \in Notice
    BY DEF NoticesInit, Notice
  <2>4. QED
    BY <1>2, <2>1, <2>2, <2>3 DEF NoticeTypes
<1>5. QED
  BY <1>1, <1>2, <1>3, <1>4
     DEF NoticesInit, EditsInv, EditFits, StepsAlone, RowsRun, RowsOwed, VersionsCounted, EditsTidy,
         TextFits

LEMMA CreateNoticeKeeps ==
  ASSUME EditsInv, NEW a \in Authors, CreateNotice(a)
  PROVE  EditsInv' /\ NoticeGrows
<1>1. NoticeTypes /\ RowsRun
  BY DEF EditsInv
<1>2. notice.version = 0 /\ edits = 0 /\ DOMAIN versions = {}
  BY <1>1, NoticeIs DEF CreateNotice, RowsRun
<1>3. \A b \in Authors : edit[b] = NoEdit /\ edit[b].step = "idle"
  BY <1>2, NoEditIs DEF EditsInv, EditFits
<1>4. PICK text \in Texts :
        /\ notice' = [version |-> 1, text |-> text]
        /\ EditBegins(a, [step |-> "created", text |-> text])
  BY DEF CreateNotice
<1>5. PICK to \in Edit : to = [step |-> "created", text |-> text]
  BY DEF Edit
<1>6. /\ edit' = [edit EXCEPT ![a] = to] /\ edits' = edits + 1 /\ 0 < MaxEdits
      /\ overlapped' = overlapped /\ aborts' = aborts /\ versions' = versions
  <2>1. overlapped \in BOOLEAN
    BY <1>1 DEF NoticeTypes
  <2>2. QED
    BY <1>2, <1>3, <1>4, <1>5, <2>1 DEF EditBegins, EditGoes, CreateNotice
<1>7. /\ edit' \in [Authors -> Edit] /\ edit'[a] = to
      /\ \A b \in Authors \ {a} : edit'[b] = NoEdit /\ edit'[b].step = "idle"
  BY <1>1, <1>3, <1>6, EditMoves
<1>8. notice'.version = 1 /\ notice'.text = text /\ notice' \in Notice
  BY <1>4 DEF Notice
<1>9. to.step = "created" /\ to.text = text
  BY <1>5
<1>10. edits' = 1 /\ 1 \in 0 .. MaxEdits
  BY <1>2, <1>6, NoticesAssumption
<1>11. NoticeTypes'
  BY <1>1, <1>6, <1>7, <1>8, <1>10 DEF NoticeTypes, Range
<1>12. Cardinality(Writing') = 0
  <2>1. Writing' = {}
    BY <1>7, <1>9 DEF Writing
  <2>2. QED
    BY <2>1, FS_EmptySet
<1>13. (\A b \in Authors : EditFits(b)') /\ StepsAlone'
  BY <1>2, <1>6, <1>7, <1>8, <1>9 DEF EditFits, StepsAlone
<1>14. RowsRun' /\ RowsOwed' /\ VersionsCounted'
  BY <1>2, <1>6, <1>7, <1>8, <1>9, <1>10, <1>12 DEF RowsRun, RowsOwed, VersionsCounted
<1>15. EditsTidy'
  BY <1>7, <1>8, <1>9, NoEditIs DEF EditsTidy, TextFits
<1>16. NoticeGrows
  BY <1>2, <1>6, <1>8 DEF NoticeGrows
<1>17. QED
  BY <1>11, <1>13, <1>14, <1>15, <1>16 DEF EditsInv

\* A step that changes the edit of one and, of the notice and its rows, only what it says.
LEMMA SnapshotFirstKeeps ==
  ASSUME EditsInv, NEW a \in Authors, SnapshotFirst(a)
  PROVE  EditsInv' /\ NoticeGrows
<1>1. NoticeTypes /\ RowsRun /\ RowsOwed /\ VersionsCounted /\ StepsAlone /\ EditsTidy
      /\ \A b \in Authors : EditFits(b)
  BY DEF EditsInv
<1>2. PICK text : text = edit[a].text
  OBVIOUS
<1>3. /\ edit[a].step = "created" /\ edit' = [edit EXCEPT ![a] = NoEdit]
      /\ versions' = WithVersion(1, text)
      /\ UNCHANGED <<notice, edits, aborts, overlapped>>
  BY <1>2 DEF SnapshotFirst, EditContinues, EditGoes
<1>4. text \in Texts
  BY <1>1, <1>2, <1>3, EditIs
<1>5. /\ edit' \in [Authors -> Edit] /\ edit'[a] = NoEdit /\ edit'[a].step = "idle"
      /\ \A b \in Authors \ {a} : edit'[b] = edit[b]
  BY <1>1, <1>3, NoEditIs, EditMoves
<1>6. /\ DOMAIN versions' = DOMAIN versions \cup {1} /\ versions'[1] = text
      /\ \A m \in DOMAIN versions : m # 1 => versions'[m] = versions[m]
      /\ Range(versions') \subseteq Texts
  BY <1>1, <1>3, <1>4, RowAdded
<1>7. notice.version \in Nat /\ notice.version > 0 /\ 1 \notin DOMAIN versions
  BY <1>1, <1>3, NoticeIs, NoEditIs DEF EditFits
<1>8. Cardinality(Writing') = Cardinality(Writing) /\ Cardinality(Writing) \in Nat
  BY <1>1, <1>3, NoEditIs, WritingChanges
<1>9. edits \in Nat /\ MaxEdits \in Nat /\ edits =< MaxEdits
  BY <1>1, NoticesAssumption DEF NoticeTypes
<1>10. RowsRun' /\ VersionsCounted'
  BY <1>1, <1>3, <1>6, <1>7, <1>8 DEF RowsRun, VersionsCounted
<1>11. NoticeTypes'
  <2>1. DOMAIN versions' \subseteq 1 .. MaxEdits + 1
    BY <1>3, <1>7, <1>8, <1>9, <1>10 DEF RowsRun, VersionsCounted
  <2>2. QED
    BY <1>1, <1>3, <1>5, <1>6, <2>1 DEF NoticeTypes
<1>12. \A b \in Authors : EditFits(b)'
  <2>1. \A b \in Authors \ {a} : edit[b].step # "created"
    BY <1>1, <1>3 DEF StepsAlone
  <2>2. QED
    BY <1>1, <1>3, <1>5, <1>6, <2>1 DEF EditFits
<1>13. StepsAlone' /\ RowsOwed'
  BY <1>1, <1>3, <1>5, <1>6, <1>7 DEF StepsAlone, RowsOwed
<1>14. EditsTidy'
  <2>1. SUFFICES ASSUME aborts = 0, ~overlapped
                 PROVE  /\ \A b, c \in Authors : edit'[b] # NoEdit /\ edit'[c] # NoEdit => b = c
                        /\ \A b \in Authors : TextFits(b)'
                        /\ notice.version \in DOMAIN versions'
                           /\ versions'[notice.version] = notice.text
    BY <1>3 DEF EditsTidy
  <2>2. edit[a] # NoEdit
    BY <1>3, NoEditIs
  <2>3. \A b \in Authors : edit'[b] = NoEdit
    BY <1>1, <1>5, <2>1, <2>2 DEF EditsTidy
  <2>4. notice.version = 1 /\ notice.text = text
    BY <1>1, <1>2, <1>3, <2>1 DEF EditsTidy, TextFits
  <2>5. QED
    BY <1>6, <2>3, <2>4, NoEditIs DEF TextFits
<1>15. NoticeGrows
  BY <1>3, <1>6, <1>7 DEF NoticeGrows
<1>16. QED
  BY <1>10, <1>11, <1>12, <1>13, <1>14, <1>15 DEF EditsInv

LEMMA ReadNoticeKeeps ==
  ASSUME EditsInv, NEW a \in Authors, ReadNotice(a)
  PROVE  EditsInv' /\ NoticeGrows
<1>1. NoticeTypes /\ RowsRun /\ RowsOwed /\ VersionsCounted /\ StepsAlone /\ EditsTidy
      /\ \A b \in Authors : EditFits(b)
  BY DEF EditsInv
<1>2. notice.version \in Nat /\ notice.version > 0 /\ notice.text \in Texts
  BY <1>1, NoticeIs DEF ReadNotice
<1>3. PICK text \in Texts, writes \in BOOLEAN :
        EditBegins(a, [step |-> "read", from |-> notice.version, text |-> text,
                       writes |-> writes, old |-> notice.text])
  BY DEF ReadNotice
<1>4. PICK to : to = [step |-> "read", from |-> notice.version, text |-> text,
                      writes |-> writes, old |-> notice.text]
  OBVIOUS
<1>5. to \in Edit /\ to.step = "read" /\ to.from = notice.version /\ to.old = notice.text
  BY <1>2, <1>4 DEF Edit
<1>6. /\ edit' = [edit EXCEPT ![a] = to] /\ edit[a] = NoEdit
      /\ edits' = edits + 1 /\ edits < MaxEdits
      /\ overlapped' = (overlapped \/ \E b \in Authors : edit[b] # NoEdit)
      /\ UNCHANGED <<notice, versions, aborts>>
  BY <1>3, <1>4 DEF ReadNotice, EditBegins, EditGoes
<1>7. /\ edit' \in [Authors -> Edit] /\ edit'[a] = to
      /\ \A b \in Authors \ {a} : edit'[b] = edit[b]
  BY <1>1, <1>5, <1>6, EditMoves
<1>8. Cardinality(Writing') = Cardinality(Writing) + 1 /\ Cardinality(Writing) \in Nat
  BY <1>1, <1>5, <1>6, NoEditIs, WritingChanges
<1>9. edits \in Nat /\ edits' \in 0 .. MaxEdits
  BY <1>1, <1>6, NoticesAssumption DEF NoticeTypes
<1>10. NoticeTypes'
  BY <1>1, <1>6, <1>7, <1>9 DEF NoticeTypes
<1>11. RowsRun' /\ VersionsCounted'
  BY <1>1, <1>2, <1>6, <1>8, <1>9 DEF RowsRun, VersionsCounted
<1>12. (\A b \in Authors : EditFits(b)') /\ StepsAlone'
  BY <1>1, <1>2, <1>5, <1>6, <1>7 DEF EditFits, StepsAlone
<1>13. RowsOwed'
  <2>1. edit[a].step = "idle"
    BY <1>6, NoEditIs
  <2>2. QED
    BY <1>1, <1>6, <1>7, <2>1 DEF RowsOwed
<1>14. EditsTidy'
  <2>1. SUFFICES ASSUME aborts = 0, ~overlapped'
                 PROVE  /\ \A b, c \in Authors : edit'[b] # NoEdit /\ edit'[c] # NoEdit => b = c
                        /\ \A b \in Authors : TextFits(b)'
                        /\ notice.version \in DOMAIN versions'
                           /\ versions'[notice.version] = notice.text
    BY <1>6 DEF EditsTidy
  <2>2. \A b \in Authors : edit[b] = NoEdit
    BY <1>6, <2>1
  <2>3. notice.version \in DOMAIN versions /\ versions[notice.version] = notice.text
    BY <1>1, <1>2, <1>6, <2>1, <2>2 DEF EditsTidy
  <2>4. QED
    BY <1>5, <1>6, <1>7, <2>2, <2>3, NoEditIs DEF TextFits
<1>15. NoticeGrows
  <2>1. ~overlapped' => ~overlapped
    BY <1>6
  <2>2. QED
    BY <1>2, <1>6, <2>1 DEF NoticeGrows
<1>16. QED
  BY <1>10, <1>11, <1>12, <1>13, <1>14, <1>15 DEF EditsInv

\* The edit in flight, and the facts every later step of it starts from.
LEMMA EditInFlight ==
  ASSUME EditsInv, NEW a \in Authors, edit[a].step \in {"read", "written", "numbered"}
  PROVE  /\ notice.version \in Nat \ {0} /\ edit[a].from \in 1 .. notice.version
         /\ notice \in [version : Nat \ {0}, text : Texts]
         /\ edit[a].text \in Texts /\ edit[a].old \in Texts /\ edit[a].writes \in BOOLEAN
         /\ edit[a] # NoEdit
         /\ Cardinality(Writing) \in Nat /\ Cardinality(Writing) > 0
         /\ edits \in Nat /\ MaxEdits \in Nat /\ edits =< MaxEdits
<1>1. NoticeTypes /\ EditFits(a)
  BY DEF EditsInv
<1>2. edit[a] # NoEdit /\ edit[a].from \in 1 .. notice.version /\ notice.version \in Nat
  BY <1>1, NoticeIs, NoEditIs DEF EditFits
<1>3. notice \in [version : Nat \ {0}, text : Texts]
  BY <1>1, <1>2, NoticeIs
<1>4. edit[a].text \in Texts /\ edit[a].old \in Texts /\ edit[a].writes \in BOOLEAN
  BY <1>1, EditIs
<1>5. Cardinality(Writing) \in Nat /\ Cardinality(Writing) > 0
  <2>1. PICK writing : writing = Writing
    OBVIOUS
  <2>2. writing \subseteq Authors /\ a \in writing
    BY <2>1 DEF Writing
  <2>3. IsFiniteSet(writing)
    BY <2>2, NoticesAssumption, FS_Subset
  <2>4. Cardinality(writing) \in Nat /\ Cardinality(writing) # 0
    BY <2>2, <2>3, FS_CardinalityType, FS_EmptySet
  <2>5. QED
    BY <2>1, <2>4
<1>6. edits \in Nat /\ MaxEdits \in Nat /\ edits =< MaxEdits
  BY <1>1, NoticesAssumption DEF NoticeTypes
<1>7. QED
  BY <1>2, <1>3, <1>4, <1>5, <1>6

LEMMA WriteNoticeKeeps ==
  ASSUME EditsInv, NEW a \in Authors, WriteNotice(a)
  PROVE  EditsInv' /\ NoticeGrows
<1>1. NoticeTypes /\ RowsRun /\ RowsOwed /\ VersionsCounted /\ StepsAlone /\ EditsTidy
      /\ \A b \in Authors : EditFits(b)
  BY DEF EditsInv
<1>2. PICK e : e = edit[a]
  OBVIOUS
<1>3. PICK to : to = IF IsNew(e) THEN [e EXCEPT !.step = "written"] ELSE NoEdit
  OBVIOUS
<1>4. /\ e.step = "read" /\ edit' = [edit EXCEPT ![a] = to]
      /\ notice' = [notice EXCEPT !.text = IF e.writes THEN e.text ELSE @]
      /\ UNCHANGED <<versions, edits, aborts, overlapped>>
  BY <1>2, <1>3 DEF WriteNotice, EditContinues, EditGoes
<1>5. /\ notice.version \in Nat \ {0} /\ e.from \in 1 .. notice.version /\ e # NoEdit
      /\ notice \in [version : Nat \ {0}, text : Texts]
      /\ e.text \in Texts /\ e.old \in Texts /\ e.writes \in BOOLEAN
      /\ Cardinality(Writing) \in Nat /\ Cardinality(Writing) > 0
      /\ edits \in Nat /\ MaxEdits \in Nat /\ edits =< MaxEdits
  BY <1>2, <1>4, EditInFlight
<1>6. /\ to \in Edit /\ to.step \in {"written", "idle"}
      /\ to.step = "written" => IsNew(e) /\ to.from = e.from /\ to.text = e.text
      /\ to.step = "idle" => ~IsNew(e) /\ to = NoEdit
  <2>1. e \in [step : {"read", "written", "numbered"}, from : Nat, text : Texts,
               writes : BOOLEAN, old : Texts]
    BY <1>1, <1>2, <1>4, EditIs
  <2>2. CASE IsNew(e)
    <3>1. to = [e EXCEPT !.step = "written"]
      BY <1>3, <2>2
    <3>2. to \in [step : {"read", "written", "numbered"}, from : Nat, text : Texts,
                  writes : BOOLEAN, old : Texts]
          /\ to.step = "written" /\ to.from = e.from /\ to.text = e.text
      BY <2>1, <3>1
    <3>3. QED
      BY <2>2, <3>2 DEF Edit
  <2>3. CASE ~IsNew(e)
    BY <1>3, <2>3, NoEditIs
  <2>4. QED
    BY <2>2, <2>3
<1>7. /\ edit' \in [Authors -> Edit] /\ edit'[a] = to
      /\ \A b \in Authors \ {a} : edit'[b] = edit[b]
  BY <1>1, <1>4, <1>6, EditMoves
<1>8. /\ notice' \in [version : Nat \ {0}, text : Texts]
      /\ notice'.version = notice.version
      /\ notice'.text = IF e.writes THEN e.text ELSE notice.text
  BY <1>4, <1>5
<1>9. Cardinality(Writing') \in Nat /\ Cardinality(Writing') =< Cardinality(Writing)
  BY <1>1, <1>2, <1>4, <1>5, <1>6, WritingChanges
<1>10. NoticeTypes'
  BY <1>1, <1>4, <1>7, <1>8 DEF NoticeTypes, Notice
<1>11. RowsRun' /\ VersionsCounted'
  BY <1>1, <1>4, <1>5, <1>8, <1>9 DEF RowsRun, VersionsCounted
<1>12. (\A b \in Authors : EditFits(b)') /\ StepsAlone'
  BY <1>1, <1>4, <1>5, <1>6, <1>7, <1>8, NoEditIs DEF EditFits, StepsAlone
<1>13. RowsOwed'
  BY <1>1, <1>2, <1>4, <1>5, <1>7, <1>8 DEF RowsOwed
<1>14. EditsTidy'
  <2>1. SUFFICES ASSUME aborts = 0, ~overlapped
                 PROVE  /\ \A b, c \in Authors : edit'[b] # NoEdit /\ edit'[c] # NoEdit => b = c
                        /\ \A b \in Authors : TextFits(b)'
                        /\ (\A b \in Authors : edit'[b] = NoEdit) =>
                             notice'.version \in DOMAIN versions'
                             /\ versions'[notice'.version] = notice'.text
    BY <1>4 DEF EditsTidy
  <2>2. \A b \in Authors \ {a} : edit'[b] = NoEdit
    BY <1>1, <1>2, <1>5, <1>7, <2>1 DEF EditsTidy
  <2>3. /\ e.from = notice.version /\ e.old = notice.text
        /\ notice.version \in DOMAIN versions /\ versions[notice.version] = notice.text
    BY <1>1, <1>2, <1>4, <2>1 DEF EditsTidy, TextFits
  <2>4. CASE to.step = "written"
    <3>1. notice'.text = e.text
      BY <1>6, <1>8, <2>4 DEF IsNew
    <3>2. QED
      BY <1>6, <1>7, <1>8, <2>2, <2>3, <2>4, <3>1, NoEditIs DEF TextFits
  <2>5. CASE to.step = "idle"
    <3>1. notice'.text = notice.text
      BY <1>5, <1>6, <1>8, <2>3, <2>5 DEF IsNew
    <3>2. \A b \in Authors : edit'[b] = NoEdit
      BY <1>6, <1>7, <2>2, <2>5
    <3>3. QED
      BY <1>4, <1>8, <2>3, <3>1, <3>2, NoEditIs DEF TextFits
  <2>6. QED
    BY <1>6, <2>4, <2>5
<1>15. NoticeGrows
  BY <1>4, <1>5, <1>8 DEF NoticeGrows
<1>16. QED
  BY <1>10, <1>11, <1>12, <1>13, <1>14, <1>15 DEF EditsInv

\* The row after the one that was read is made only if nobody has made it: then the
\* version that was read is still the current one.
LEMMA SnapshotNextKeeps ==
  ASSUME EditsInv, NEW a \in Authors, SnapshotNext(a)
  PROVE  EditsInv' /\ NoticeGrows
<1>1. NoticeTypes /\ RowsRun /\ RowsOwed /\ VersionsCounted /\ StepsAlone /\ EditsTidy
      /\ \A b \in Authors : EditFits(b)
  BY DEF EditsInv
<1>2. PICK e, next : e = edit[a] /\ next = e.from + 1
  OBVIOUS
<1>3. /\ e.step = "written"
      /\ UNCHANGED <<notice, edits, aborts, overlapped>>
      /\ IF next \in DOMAIN versions
         THEN edit' = [edit EXCEPT ![a] = NoEdit] /\ versions' = versions
         ELSE edit' = [edit EXCEPT ![a].step = "numbered"] /\ versions' = WithVersion(next, e.text)
  BY <1>2 DEF SnapshotNext, SnapshotOf
<1>4. /\ notice.version \in Nat \ {0} /\ e.from \in 1 .. notice.version /\ e # NoEdit
      /\ e.text \in Texts
      /\ Cardinality(Writing) \in Nat /\ Cardinality(Writing) > 0
      /\ edits \in Nat /\ MaxEdits \in Nat /\ edits =< MaxEdits
  BY <1>2, <1>3, EditInFlight
<1>5. CASE next \in DOMAIN versions
  <2>1. /\ edit' \in [Authors -> Edit] /\ edit'[a] = NoEdit /\ edit'[a].step = "idle"
        /\ \A b \in Authors \ {a} : edit'[b] = edit[b]
    BY <1>1, <1>3, <1>5, NoEditIs, EditMoves
  <2>2. Cardinality(Writing') \in Nat /\ Cardinality(Writing') =< Cardinality(Writing)
    BY <1>1, <1>2, <1>3, <1>4, <1>5, NoEditIs, WritingChanges
  <2>3. UNCHANGED <<versions, notice, edits, aborts, overlapped>>
    BY <1>3, <1>5
  <2>4. NoticeTypes'
    BY <1>1, <2>1, <2>3 DEF NoticeTypes
  <2>5. RowsRun' /\ VersionsCounted'
    BY <1>1, <1>4, <2>2, <2>3 DEF RowsRun, VersionsCounted
  <2>6. (\A b \in Authors : EditFits(b)') /\ StepsAlone'
    BY <1>1, <2>1, <2>3 DEF EditFits, StepsAlone
  <2>7. RowsOwed'
    BY <1>1, <1>2, <1>3, <2>1, <2>3 DEF RowsOwed
  <2>8. aborts = 0 => overlapped
    <3>1. SUFFICES ASSUME aborts = 0, ~overlapped PROVE FALSE
      OBVIOUS
    <3>2. e.from = notice.version
      BY <1>1, <1>2, <1>3, <3>1 DEF EditsTidy, TextFits
    <3>3. PICK b \in Authors : edit[b].step = "numbered"
      BY <1>1, <1>2, <1>4, <1>5, <3>1, <3>2 DEF RowsOwed
    <3>4. b = a
      BY <1>1, <1>2, <1>4, <3>1, <3>3, NoEditIs DEF EditsTidy
    <3>5. QED
      BY <1>2, <1>3, <3>3, <3>4
  <2>9. EditsTidy'
    BY <2>3, <2>8 DEF EditsTidy
  <2>10. NoticeGrows
    BY <1>4, <2>3 DEF NoticeGrows
  <2>11. QED
    BY <2>4, <2>5, <2>6, <2>7, <2>9, <2>10 DEF EditsInv
<1>6. CASE next \notin DOMAIN versions
  <2>1. PICK to : to = [e EXCEPT !.step = "numbered"]
    OBVIOUS
  <2>2. to \in Edit /\ to.step = "numbered" /\ to.from = e.from
    <3>1. e \in [step : {"read", "written", "numbered"}, from : Nat, text : Texts,
                 writes : BOOLEAN, old : Texts]
      BY <1>1, <1>2, <1>3, EditIs
    <3>2. to \in [step : {"read", "written", "numbered"}, from : Nat, text : Texts,
                  writes : BOOLEAN, old : Texts]
          /\ to.step = "numbered" /\ to.from = e.from
      BY <2>1, <3>1
    <3>3. QED
      BY <3>2 DEF Edit
  <2>3. edit' = [edit EXCEPT ![a] = to] /\ versions' = WithVersion(next, e.text)
        /\ UNCHANGED <<notice, edits, aborts, overlapped>>
    BY <1>2, <1>3, <1>6, <2>1
  <2>4. /\ edit' \in [Authors -> Edit] /\ edit'[a] = to
        /\ \A b \in Authors \ {a} : edit'[b] = edit[b]
    BY <1>1, <2>2, <2>3, EditMoves
  <2>5. /\ DOMAIN versions' = DOMAIN versions \cup {next} /\ versions'[next] = e.text
        /\ \A m \in DOMAIN versions : m # next => versions'[m] = versions[m]
        /\ Range(versions') \subseteq Texts
    BY <1>1, <1>4, <2>3, RowAdded
  <2>6. e.from = notice.version /\ next = notice.version + 1
    BY <1>1, <1>2, <1>4, <1>6 DEF RowsRun
  <2>7. Cardinality(Writing') = Cardinality(Writing)
    BY <1>1, <1>2, <1>3, <2>2, <2>3, WritingChanges
  <2>8. RowsRun' /\ VersionsCounted'
    BY <1>1, <1>4, <2>3, <2>5, <2>6, <2>7 DEF RowsRun, VersionsCounted
  <2>9. NoticeTypes'
    <3>1. DOMAIN versions' \subseteq 1 .. MaxEdits + 1
      BY <1>4, <2>3, <2>7, <2>8 DEF RowsRun, VersionsCounted
    <3>2. QED
      BY <1>1, <2>3, <2>4, <2>5, <3>1 DEF NoticeTypes
  <2>10. \A b \in Authors : edit[b].step # "numbered"
    BY <1>1, <1>6, <2>6 DEF EditFits
  <2>11. \A b \in Authors : EditFits(b)'
    BY <1>1, <1>4, <2>2, <2>3, <2>4, <2>5, <2>6 DEF EditFits
  <2>12. StepsAlone'
    BY <1>1, <2>2, <2>4, <2>10 DEF StepsAlone
  <2>13. RowsOwed'
    BY <1>1, <1>2, <1>3, <2>2, <2>3, <2>4, <2>5 DEF RowsOwed
  <2>14. EditsTidy'
    <3>1. SUFFICES ASSUME aborts = 0, ~overlapped
                   PROVE  /\ \A b, c \in Authors : edit'[b] # NoEdit /\ edit'[c] # NoEdit => b = c
                          /\ \A b \in Authors : TextFits(b)'
                          /\ edit'[a] # NoEdit
      BY <2>3 DEF EditsTidy
    <3>2. \A b \in Authors \ {a} : edit'[b] = NoEdit
      BY <1>1, <1>2, <1>4, <2>4, <3>1 DEF EditsTidy
    <3>3. notice.text = e.text
      BY <1>1, <1>2, <1>3, <3>1 DEF EditsTidy, TextFits
    <3>4. QED
      BY <2>2, <2>3, <2>4, <2>5, <2>6, <3>2, <3>3, NoEditIs DEF TextFits
  <2>15. NoticeGrows
    BY <1>4, <1>6, <2>3, <2>5 DEF NoticeGrows
  <2>16. QED
    BY <2>8, <2>9, <2>11, <2>12, <2>13, <2>14, <2>15 DEF EditsInv
<1>7. QED
  BY <1>5, <1>6

LEMMA NumberNoticeKeeps ==
  ASSUME EditsInv, NEW a \in Authors, NumberNotice(a)
  PROVE  EditsInv' /\ NoticeGrows
<1>1. NoticeTypes /\ RowsRun /\ RowsOwed /\ VersionsCounted /\ StepsAlone /\ EditsTidy
      /\ \A b \in Authors : EditFits(b)
  BY DEF EditsInv
<1>2. PICK next : next = edit[a].from + 1
  OBVIOUS
<1>3. /\ edit[a].step = "numbered" /\ edit' = [edit EXCEPT ![a] = NoEdit]
      /\ notice' = [notice EXCEPT !.version = next]
      /\ UNCHANGED <<versions, edits, aborts, overlapped>>
  BY <1>2 DEF NumberNotice, EditContinues, EditGoes
<1>4. /\ notice.version \in Nat \ {0} /\ edit[a] # NoEdit
      /\ notice \in [version : Nat \ {0}, text : Texts]
      /\ Cardinality(Writing) \in Nat /\ Cardinality(Writing) > 0
      /\ edits \in Nat /\ MaxEdits \in Nat /\ edits =< MaxEdits
  BY <1>3, EditInFlight
<1>5. next = notice.version + 1 /\ next \in DOMAIN versions
  BY <1>1, <1>2, <1>3 DEF EditFits
<1>6. /\ notice' \in [version : Nat \ {0}, text : Texts]
      /\ notice'.version = notice.version + 1 /\ notice'.text = notice.text
  <2>1. next \in Nat \ {0}
    BY <1>4, <1>5
  <2>2. /\ notice' \in [version : Nat \ {0}, text : Texts]
        /\ notice'.version = next /\ notice'.text = notice.text
    BY <1>3, <1>4, <2>1
  <2>3. QED
    BY <1>5, <2>2
<1>7. /\ edit' \in [Authors -> Edit] /\ edit'[a] = NoEdit /\ edit'[a].step = "idle"
      /\ \A b \in Authors \ {a} : edit'[b] = edit[b] /\ edit[b].step # "numbered"
  <2>1. NoEdit \in Edit /\ NoEdit.step = "idle"
    BY NoEditIs
  <2>2. /\ edit' \in [Authors -> Edit] /\ edit'[a] = NoEdit
        /\ \A b \in Authors \ {a} : edit'[b] = edit[b]
    BY <1>1, <1>3, <2>1, EditMoves
  <2>3. \A b \in Authors \ {a} : edit[b].step # "numbered"
    BY <1>1, <1>3 DEF StepsAlone
  <2>4. QED
    BY <2>1, <2>2, <2>3
<1>8. Cardinality(Writing') = Cardinality(Writing) - 1
  BY <1>1, <1>3, NoEditIs, WritingChanges
<1>9. NoticeTypes'
  BY <1>1, <1>3, <1>6, <1>7 DEF NoticeTypes, Notice
<1>10. RowsRun' /\ VersionsCounted'
  BY <1>1, <1>3, <1>4, <1>5, <1>6, <1>8 DEF RowsRun, VersionsCounted
<1>11. (\A b \in Authors : EditFits(b)') /\ StepsAlone'
  BY <1>1, <1>3, <1>4, <1>6, <1>7 DEF EditFits, StepsAlone
<1>12. RowsOwed'
  BY <1>1, <1>3, <1>4, <1>6, <1>7 DEF RowsOwed, RowsRun
<1>13. EditsTidy'
  <2>1. SUFFICES ASSUME aborts = 0, ~overlapped
                 PROVE  /\ \A b, c \in Authors : edit'[b] # NoEdit /\ edit'[c] # NoEdit => b = c
                        /\ \A b \in Authors : TextFits(b)'
                        /\ notice'.version \in DOMAIN versions'
                           /\ versions'[notice'.version] = notice'.text
    BY <1>3 DEF EditsTidy
  <2>2. \A b \in Authors : edit'[b] = NoEdit
    BY <1>1, <1>4, <1>7, <2>1 DEF EditsTidy
  <2>3. versions[notice.version + 1] = notice.text
    BY <1>1, <1>3, <2>1 DEF EditsTidy, TextFits
  <2>4. QED
    BY <1>3, <1>5, <1>6, <2>2, <2>3, NoEditIs DEF TextFits
<1>14. NoticeGrows
  BY <1>3, <1>4, <1>6 DEF NoticeGrows
<1>15. QED
  BY <1>9, <1>10, <1>11, <1>12, <1>13, <1>14 DEF EditsInv

LEMMA BreakOffKeeps ==
  ASSUME EditsInv, NEW a \in Authors, BreakOff(a)
  PROVE  EditsInv' /\ NoticeGrows
<1>1. NoticeTypes /\ RowsRun /\ VersionsCounted /\ StepsAlone /\ \A b \in Authors : EditFits(b)
  BY DEF EditsInv
<1>2. /\ edit' = [edit EXCEPT ![a] = NoEdit] /\ UNCHANGED <<notice, versions, edits, overlapped>>
      /\ aborts' = aborts + 1 /\ aborts < MaxAborts
  BY DEF BreakOff, EditGoes
<1>3. /\ edit' \in [Authors -> Edit] /\ edit'[a] = NoEdit /\ edit'[a].step = "idle"
      /\ \A b \in Authors \ {a} : edit'[b] = edit[b]
  BY <1>1, <1>2, NoEditIs, EditMoves
<1>4. aborts' \in 0 .. MaxAborts /\ aborts' # 0
  BY <1>1, <1>2, NoticesAssumption DEF NoticeTypes
<1>5. /\ Cardinality(Writing) \in Nat /\ Cardinality(Writing') \in Nat
      /\ Cardinality(Writing') =< Cardinality(Writing)
  BY <1>1, <1>2, NoEditIs, WritingChanges
<1>6. notice.version \in Nat /\ edits \in Nat
  BY <1>1, NoticeIs DEF NoticeTypes
<1>7. NoticeTypes'
  BY <1>1, <1>2, <1>3, <1>4 DEF NoticeTypes
<1>8. RowsRun' /\ VersionsCounted'
  BY <1>1, <1>2, <1>5, <1>6 DEF RowsRun, VersionsCounted
<1>9. (\A b \in Authors : EditFits(b)') /\ StepsAlone'
  BY <1>1, <1>2, <1>3 DEF EditFits, StepsAlone
<1>10. RowsOwed' /\ EditsTidy' /\ NoticeGrows
  BY <1>2, <1>4, <1>6 DEF RowsOwed, EditsTidy, NoticeGrows
<1>11. QED
  BY <1>7, <1>8, <1>9, <1>10 DEF EditsInv

LEMMA EditsStep ==
  ASSUME EditsInv, NEW a \in Authors, EditsNotice(a)
  PROVE  EditsInv' /\ NoticeGrows
BY CreateNoticeKeeps, SnapshotFirstKeeps, ReadNoticeKeeps, WriteNoticeKeeps, SnapshotNextKeeps,
   NumberNoticeKeeps, BreakOffKeeps DEF EditsNotice

LEMMA EditsRest ==
  ASSUME EditsInv, UNCHANGED editVars
  PROVE  EditsInv' /\ NoticeGrows
<1>1. UNCHANGED <<notice, versions, edit, edits, aborts, overlapped>>
  BY DEF editVars
<1>2. NoticeTypes /\ notice.version \in Nat
  BY NoticeIs DEF EditsInv
<1>3. Writing' = Writing
  BY <1>1 DEF Writing
<1>4. NoticeTypes' /\ (\A a \in Authors : EditFits(a)') /\ StepsAlone'
  BY <1>1, <1>2 DEF EditsInv, NoticeTypes, EditFits, StepsAlone
<1>5. RowsRun' /\ RowsOwed' /\ VersionsCounted'
  BY <1>1, <1>3 DEF EditsInv, RowsRun, RowsOwed, VersionsCounted
<1>6. EditsTidy'
  BY <1>1 DEF EditsInv, EditsTidy, TextFits
<1>7. NoticeGrows
  BY <1>1, <1>2 DEF NoticeGrows
<1>8. QED
  BY <1>4, <1>5, <1>6, <1>7 DEF EditsInv

\* The text a version has stays its text, so what a page was served still fits.
LEMMA SeenStays ==
  ASSUME EditsInv, EditsInv', NoticeGrows, NEW seen \in Notified, SeenFits(seen)
  PROVE  SeenFits(seen)'
<1>1. notice.version \in Nat /\ seen.version \in Nat
  BY NoticeIs DEF EditsInv, Notified
<1>2. notice'.version \in Nat
  BY DEF EditsInv, NoticeTypes, Notice, NoNotice
<1>3. seen.version =< notice'.version
  BY <1>1, <1>2 DEF NoticeGrows, SeenFits
<1>4. seen.settled /\ aborts' = 0 /\ ~overlapped' =>
        seen.version \in DOMAIN versions' /\ versions'[seen.version] = seen.text
  BY DEF NoticeGrows, SeenFits
<1>5. QED
  BY <1>3, <1>4 DEF SeenFits

LEMMA VisitIs ==
  ASSUME VisitTypes
  PROVE  /\ visitor = Nothing <=> visitor.at = "away"
         /\ visitor # Nothing =>
              visitor \in [at : {"loaded", "shown", "client"}, notice : Notified]
         /\ visitor # Nothing => visitor.notice \in Notified
         /\ \A post \in acknowledged : post \in Sent /\ post.notice \in Notified
         /\ ack # NoAck => ack \in [version : Nat \ {0}, seen : Notified] /\ ack.seen \in Notified
<1>1. visitor \in PageStates /\ ack \in Ack /\ acknowledged \subseteq Sent
  BY DEF VisitTypes
<1>2. visitor = Nothing <=> visitor.at = "away"
  BY <1>1 DEF PageStates, Nothing
<1>3. visitor # Nothing => visitor \in [at : {"loaded", "shown", "client"}, notice : Notified]
  BY <1>1 DEF PageStates
<1>4. ack # NoAck => ack \in [version : Nat \ {0}, seen : Notified]
  BY <1>1 DEF Ack
<1>5. \A post \in acknowledged : post \in Sent /\ post.notice \in Notified
  BY <1>1 DEF Sent
<1>6. QED
  BY <1>2, <1>3, <1>4, <1>5

LEMMA VisitsStay ==
  ASSUME EditsInv, EditsInv', NoticeGrows, VisitsInv, UNCHANGED visitVars
  PROVE  VisitsInv'
<1>1. UNCHANGED <<visitor, visits, acknowledged, ack, ofVisit>>
  BY DEF visitVars
<1>2. VisitTypes
  BY DEF VisitsInv
<1>3. VisitTypes'
  BY <1>1, <1>2 DEF VisitTypes
<1>4. visitor # Nothing => SeenFits(visitor.notice)'
  BY <1>1, <1>2, SeenStays, VisitIs DEF VisitsInv, SeenFits
<1>5. \A post \in acknowledged : SeenFits(post.notice)'
  <2>1. SUFFICES ASSUME NEW post \in acknowledged PROVE SeenFits(post.notice)'
    OBVIOUS
  <2>2. post.notice \in Notified /\ SeenFits(post.notice)
    BY <1>2, VisitIs DEF VisitsInv
  <2>3. QED
    BY <2>2, SeenStays
<1>6. ack # NoAck => SeenFits(ack.seen)'
  BY <1>1, <1>2, SeenStays, VisitIs DEF VisitsInv, SeenFits
<1>7. QED
  BY <1>1, <1>3, <1>4, <1>5, <1>6 DEF VisitsInv, SeenFits

\* Served while no edit is in flight, a page has the text of the current version.
LEMMA ServedKeeps ==
  ASSUME EditsInv, VisitsInv, NEW at \in {"loaded", "client"}, Served(at)
  PROVE  VisitsInv'
<1>1. NoticeTypes /\ VisitTypes /\ EditsTidy
  BY DEF EditsInv, VisitsInv
<1>2. notice \in [version : Nat \ {0}, text : Texts]
  BY <1>1, NoticeIs DEF Served
<1>3. PICK settled \in BOOLEAN : settled = (EditsInFlight = {})
  OBVIOUS
<1>4. PICK seen : seen = [text |-> notice.text, version |-> notice.version, settled |-> settled]
  OBVIOUS
<1>5. /\ seen \in Notified /\ seen.version = notice.version /\ seen.text = notice.text
      /\ seen.settled = settled
  BY <1>2, <1>3, <1>4 DEF Notified
<1>6. /\ visitor' = [at |-> at, notice |-> seen] /\ visits' = visits + 1 /\ visits < MaxVisits
      /\ UNCHANGED <<acknowledged, ack, ofVisit, notice, versions, aborts, overlapped>>
  BY <1>3, <1>4 DEF Served, editVars
<1>7. visitor' \in PageStates /\ visitor'.notice = seen
  BY <1>5, <1>6 DEF PageStates
<1>8. visits' \in 0 .. MaxVisits
  BY <1>1, <1>6, NoticesAssumption DEF VisitTypes
<1>9. VisitTypes'
  BY <1>1, <1>6, <1>7, <1>8 DEF VisitTypes
<1>10. SeenFits(seen)
  <2>1. settled => \A a \in Authors : edit[a] = NoEdit
    BY <1>3 DEF EditsInFlight
  <2>2. settled /\ aborts = 0 /\ ~overlapped =>
          notice.version \in DOMAIN versions /\ versions[notice.version] = notice.text
    BY <1>1, <1>2, <2>1 DEF EditsTidy
  <2>3. QED
    BY <1>2, <1>5, <2>2 DEF SeenFits
<1>11. QED
  BY <1>6, <1>7, <1>9, <1>10 DEF VisitsInv, SeenFits

\* What a page does with the notice it was served.
LEMMA PageKeeps ==
  ASSUME VisitsInv, ShowByType \/ CloseNotice \/ LeavePage
  PROVE  VisitsInv' /\ UNCHANGED editVars
<1>1. VisitTypes
  BY DEF VisitsInv
<1>2. UNCHANGED <<visits, acknowledged, ack, ofVisit>> /\ UNCHANGED editVars
  BY DEF ShowByType, CloseNotice, LeavePage
<1>3. UNCHANGED <<notice, versions, aborts, overlapped>>
  BY <1>2 DEF editVars
<1>4. /\ visitor' \in PageStates
      /\ visitor' # Nothing => visitor # Nothing /\ visitor'.notice = visitor.notice
  <2>1. CASE ShowByType \/ CloseNotice
    <3>1. PICK at \in {"shown", "loaded"} : visitor' = [visitor EXCEPT !.at = at]
      BY <2>1 DEF ShowByType, CloseNotice
    <3>2. visitor \in [at : {"loaded", "shown", "client"}, notice : Notified] /\ visitor # Nothing
      BY <1>1, <2>1, VisitIs DEF ShowByType, CloseNotice
    <3>3. visitor' \in [at : {"loaded", "shown", "client"}, notice : Notified]
          /\ visitor'.notice = visitor.notice
      BY <3>1, <3>2
    <3>4. QED
      BY <3>2, <3>3 DEF PageStates
  <2>2. CASE LeavePage
    BY <2>2 DEF LeavePage, PageStates
  <2>3. QED
    BY <2>1, <2>2
<1>5. VisitTypes'
  BY <1>1, <1>2, <1>4 DEF VisitTypes
<1>6. QED
  BY <1>2, <1>3, <1>4, <1>5 DEF VisitsInv, SeenFits

LEMMA AcknowledgeKeeps ==
  ASSUME VisitsInv, ReadNow \/ ReportVisit
  PROVE  VisitsInv' /\ UNCHANGED editVars
<1>1. VisitTypes
  BY DEF VisitsInv
<1>2. PICK visit \in BOOLEAN : Acknowledges(visit)
  BY DEF ReadNow, ReportVisit
<1>3. visitor # Nothing
  BY <1>1, VisitIs DEF ReadNow, ReportVisit
<1>4. visitor \in [at : {"loaded", "shown", "client"}, notice : Notified]
      /\ visitor.notice \in Notified /\ SeenFits(visitor.notice)
  BY <1>1, <1>3, VisitIs DEF VisitsInv
<1>5. visitor' \in PageStates /\ visitor'.notice = visitor.notice
  <2>1. visitor' = visitor \/ visitor' = [visitor EXCEPT !.at = "loaded"]
    BY DEF ReadNow, ReportVisit
  <2>2. visitor' \in [at : {"loaded", "shown", "client"}, notice : Notified]
        /\ visitor'.notice = visitor.notice
    BY <1>4, <2>1
  <2>3. QED
    BY <2>2 DEF PageStates
<1>6. PICK post : post = [notice |-> visitor.notice, visit |-> visit]
  OBVIOUS
<1>7. post \in Sent /\ post.notice = visitor.notice
  BY <1>4, <1>6 DEF Sent
<1>8. /\ acknowledged' = acknowledged \cup {post} /\ UNCHANGED <<visits, ack, ofVisit>>
      /\ UNCHANGED editVars
  BY <1>2, <1>6 DEF Acknowledges
<1>9. UNCHANGED <<notice, versions, aborts, overlapped>>
  BY <1>8 DEF editVars
<1>10. VisitTypes'
  BY <1>1, <1>5, <1>7, <1>8 DEF VisitTypes
<1>11. QED
  BY <1>4, <1>5, <1>7, <1>8, <1>9, <1>10 DEF VisitsInv, SeenFits

\* The version that is current when a post arrives is no older than the one it saw.
LEMMA RecordAcknowledgementKeeps ==
  ASSUME EditsInv, VisitsInv, RecordNoticeAcknowledgement
  PROVE  VisitsInv' /\ UNCHANGED editVars
<1>1. VisitTypes /\ notice.version \in Nat
  BY NoticeIs DEF EditsInv, VisitsInv
<1>2. PICK post \in acknowledged :
        /\ acknowledged' = acknowledged \ {post}
        /\ ofVisit' = (ofVisit \/ post.visit)
        /\ ack' = IF post.visit /\ ofVisit
                  THEN ack ELSE [version |-> notice.version, seen |-> post.notice]
  BY DEF RecordNoticeAcknowledgement
<1>3. UNCHANGED <<visitor, visits>> /\ UNCHANGED editVars
  BY DEF RecordNoticeAcknowledgement
<1>4. UNCHANGED <<notice, versions, aborts, overlapped>>
  BY <1>3 DEF editVars
<1>5. post \in Sent /\ post.notice \in Notified /\ SeenFits(post.notice)
  BY <1>1, VisitIs DEF VisitsInv
<1>6. post.notice.version \in Nat \ {0} /\ post.notice.version =< notice.version
  BY <1>5 DEF Notified, SeenFits
<1>7. ofVisit' \in BOOLEAN
  BY <1>2
<1>8. ack' = ack \/ (/\ ack' \in [version : Nat \ {0}, seen : Notified]
                     /\ ack'.seen = post.notice /\ ack'.version = notice.version)
  BY <1>1, <1>2, <1>5, <1>6
<1>9. VisitTypes'
  <2>1. ack' \in Ack
    BY <1>1, <1>8 DEF VisitTypes, Ack
  <2>2. QED
    BY <1>1, <1>2, <1>3, <1>7, <2>1 DEF VisitTypes
<1>10. ack' # NoAck => SeenFits(ack'.seen) /\ ack'.version >= ack'.seen.version
  BY <1>1, <1>5, <1>6, <1>8 DEF VisitsInv
<1>11. QED
  BY <1>2, <1>3, <1>4, <1>9, <1>10 DEF VisitsInv, SeenFits

\* Which languages are the default, and which are there at all.
LEMMA DefaultsAre ==
  \A l \in Languages : (l \in Defaults <=> languageIs[l] = "default")
                       /\ (l \in Offered <=> languageIs[l] # "none")
BY DEF Defaults, Offered

LEMMA NoSettingIs == NoSetting \in Setting
BY DEF Setting

LEMMA SettingIs ==
  ASSUME LanguageTypes, NEW s \in Linguists, setting[s].step \in {"add", "set", "keep"}
  PROVE  /\ setting[s] # NoSetting
         /\ setting[s] \in [step : {"add", "set", "keep"}, own : Languages, clears : SUBSET Languages,
                            default : BOOLEAN]
<1>1. setting[s] \in Setting
  BY DEF LanguageTypes
<1>2. QED
  BY <1>1 DEF Setting, NoSetting

\* A transaction that begins has seen every default there is, if it is to take it.
LEMMA SettingBeginsKeeps ==
  ASSUME LanguagesInv, NEW s \in Linguists, BeginLanguage(s) \/ BeginUpdate(s)
  PROVE  LanguagesInv' /\ UNCHANGED <<editVars, visitVars>>
<1>1. LanguageTypes /\ DefaultsOwned
  BY DEF LanguagesInv
<1>2. PICK step \in {"add", "set", "keep"}, own \in Languages, default \in BOOLEAN :
        SettingBegins(s, [step |-> step, own |-> own, clears |-> LosesDefault(default),
                          default |-> default])
  BY DEF BeginLanguage, BeginUpdate, Offered
<1>3. PICK clears : clears = LosesDefault(default)
  OBVIOUS
<1>4. clears \subseteq Languages /\ (default => \A l \in Defaults : l \in clears)
  BY <1>3 DEF LosesDefault, Offered, Defaults
<1>5. PICK to : to = [step |-> step, own |-> own, clears |-> clears, default |-> default]
  OBVIOUS
<1>6. to \in Setting /\ to.clears = clears /\ to.default = default
  BY <1>2, <1>4, <1>5 DEF Setting
<1>7. /\ setting' = [setting EXCEPT ![s] = to] /\ settings' = settings + 1 /\ settings < MaxSettings
      /\ languageIs' = languageIs /\ UNCHANGED <<editVars, visitVars>>
  BY <1>2, <1>3, <1>5 DEF SettingBegins
<1>8. /\ setting' \in [Linguists -> Setting] /\ setting'[s] = to
      /\ \A t \in Linguists \ {s} : setting'[t] = setting[t]
  BY <1>1, <1>6, <1>7 DEF LanguageTypes
<1>9. settings' \in 0 .. MaxSettings
  BY <1>1, <1>7, NoticesAssumption DEF LanguageTypes
<1>10. LanguageTypes'
  BY <1>1, <1>7, <1>8, <1>9 DEF LanguageTypes
<1>11. DefaultsOwned'
  <2>1. PICK defaults : defaults = Defaults
    OBVIOUS
  <2>2. Defaults' = defaults
    BY <1>7, <2>1 DEF Defaults
  <2>3. PICK owner \in [defaults -> Linguists] : SetBy(owner)
    BY <1>1, <2>1 DEF DefaultsOwned
  <2>4. \A l \in defaults :
          setting'[owner[l]] # NoSetting /\ setting'[owner[l]].default => l \in setting'[owner[l]].clears
    <3>1. SUFFICES ASSUME NEW l \in defaults, setting'[owner[l]] # NoSetting,
                          setting'[owner[l]].default
                   PROVE  l \in setting'[owner[l]].clears
      OBVIOUS
    <3>2. CASE owner[l] = s
      BY <1>4, <1>6, <1>8, <2>1, <3>1, <3>2
    <3>3. CASE owner[l] # s
      <4>1. setting'[owner[l]] = setting[owner[l]]
        BY <1>8, <2>3, <3>3
      <4>2. QED
        BY <2>1, <2>3, <3>1, <4>1 DEF SetBy
    <3>4. QED
      BY <3>2, <3>3
  <2>5. QED
    BY <2>1, <2>2, <2>3, <2>4 DEF DefaultsOwned, SetBy
<1>12. QED
  BY <1>7, <1>10, <1>11 DEF LanguagesInv

\* A transaction that ends may add one default, and then leaves none that it has seen.
LEMMA OwnersAfter ==
  ASSUME LanguagesInv, NEW s \in Linguists, setting' = [setting EXCEPT ![s] = NoSetting],
         NEW default \in BOOLEAN, NEW own,
         default => setting[s] # NoSetting /\ setting[s].default,
         \A l \in Defaults' : l \in Defaults \/ (default /\ l = own),
         default => \A l \in Defaults' : l # own => l \notin setting[s].clears
  PROVE  DefaultsOwned'
<1>1. PICK before, after : before = Defaults /\ after = Defaults'
  OBVIOUS
<1>2. PICK owner \in [before -> Linguists] : SetBy(owner)
  BY <1>1 DEF LanguagesInv, DefaultsOwned
<1>3. PICK next : next = [l \in after |-> IF default /\ l = own THEN s ELSE owner[l]]
  OBVIOUS
<1>4. \A l \in after : l \in before \/ (default /\ l = own)
  BY <1>1
<1>5. \A l \in after :
        /\ default /\ l = own => next[l] = s
        /\ ~(default /\ l = own) => l \in before /\ next[l] = owner[l] /\ owner[l] \in Linguists
  BY <1>2, <1>3, <1>4
<1>6. next \in [after -> Linguists]
  BY <1>3, <1>5
<1>7. setting'[s] = NoSetting /\ \A t \in Linguists \ {s} : setting'[t] = setting[t]
  BY DEF LanguagesInv, LanguageTypes
<1>8. \A l \in after : default /\ l # own => owner[l] # s
  <2>1. SUFFICES ASSUME NEW l \in after, default, l # own, owner[l] = s PROVE FALSE
    OBVIOUS
  <2>2. l \in before /\ setting[owner[l]] # NoSetting /\ setting[owner[l]].default
    BY <1>4, <2>1
  <2>3. l \in setting[owner[l]].clears
    BY <1>1, <1>2, <2>2 DEF SetBy
  <2>4. QED
    BY <1>1, <2>1, <2>3
<1>9. \A l, m \in before : owner[l] = owner[m] => l = m
  BY <1>1, <1>2 DEF SetBy
<1>10. \A l, m \in after : next[l] = next[m] => l = m
  BY <1>5, <1>8, <1>9
<1>11. \A l \in after :
         setting'[next[l]] # NoSetting /\ setting'[next[l]].default => l \in setting'[next[l]].clears
  <2>1. SUFFICES ASSUME NEW l \in after, setting'[next[l]] # NoSetting, setting'[next[l]].default
                 PROVE  l \in setting'[next[l]].clears
    OBVIOUS
  <2>2. next[l] # s /\ l \in before /\ next[l] = owner[l] /\ owner[l] \in Linguists
    BY <1>5, <1>7, <2>1
  <2>3. setting'[next[l]] = setting[owner[l]]
    BY <1>7, <2>2
  <2>4. QED
    BY <1>1, <1>2, <2>1, <2>2, <2>3 DEF SetBy
<1>12. QED
  BY <1>1, <1>6, <1>10, <1>11 DEF DefaultsOwned, SetBy

LEMMA SettingEndsKeeps ==
  ASSUME LanguagesInv, NEW s \in Linguists, CreateLanguage(s) \/ UpdateLanguage(s)
  PROVE  LanguagesInv' /\ UNCHANGED <<editVars, visitVars>>
<1>1. LanguageTypes
  BY DEF LanguagesInv
<1>2. /\ setting[s].step \in {"add", "set", "keep"} /\ setting' = [setting EXCEPT ![s] = NoSetting]
      /\ UNCHANGED <<settings, editVars, visitVars>>
      /\ languageIs' = languageIs \/ languageIs' = LanguagesAfter(s)
  BY DEF CreateLanguage, UpdateLanguage, SettingEnds
<1>3. PICK set : set = setting[s]
  OBVIOUS
<1>4. set # NoSetting
      /\ set \in [step : {"add", "set", "keep"}, own : Languages, clears : SUBSET Languages,
                  default : BOOLEAN]
  BY <1>1, <1>2, <1>3, SettingIs
<1>5. setting' \in [Linguists -> Setting]
  BY <1>1, <1>2, NoSettingIs DEF LanguageTypes
<1>6. CASE languageIs' = languageIs
  <2>1. LanguageTypes'
    BY <1>1, <1>2, <1>5, <1>6 DEF LanguageTypes
  <2>2. \A l \in Defaults' : l \in Defaults
    BY <1>6 DEF Defaults
  <2>3. PICK none : none = FALSE
    OBVIOUS
  <2>4. DefaultsOwned'
    BY <1>2, <2>2, <2>3, OwnersAfter
  <2>5. QED
    BY <1>2, <2>1, <2>4 DEF LanguagesInv
<1>7. CASE languageIs' = LanguagesAfter(s)
  <2>1. languageIs' = [l \in Languages |->
          IF l = set.own
          THEN IF set.step = "keep" THEN languageIs[l] ELSE IF set.default THEN "default" ELSE "plain"
          ELSE IF l \in set.clears /\ languageIs[l] = "default" THEN "plain" ELSE languageIs[l]]
    BY <1>3, <1>7 DEF LanguagesAfter
  <2>2. languageIs' \in [Languages -> {"none", "plain", "default"}]
    BY <1>1, <2>1 DEF LanguageTypes
  <2>3. LanguageTypes'
    BY <1>1, <1>2, <1>5, <2>2 DEF LanguageTypes
  <2>4. PICK default, own, clears :
          default = set.default /\ own = set.own /\ clears = set.clears
    OBVIOUS
  <2>5. \A l \in Languages : languageIs'[l] = "default" =>
          /\ languageIs[l] = "default" \/ (default /\ l = own)
          /\ default /\ l # own => l \notin clears
    BY <2>1, <2>4
  <2>6. \A l \in Defaults' : l \in Languages /\ languageIs'[l] = "default"
    BY DEF Defaults
  <2>7. \A l \in Defaults' : /\ l \in Defaults \/ (default /\ l = own)
                             /\ default /\ l # own => l \notin clears
    BY <2>5, <2>6, DefaultsAre
  <2>8. DefaultsOwned'
    <3>1. /\ default \in BOOLEAN /\ setting' = [setting EXCEPT ![s] = NoSetting]
          /\ default => setting[s] # NoSetting /\ setting[s].default
          /\ clears = setting[s].clears
      BY <1>2, <1>3, <1>4, <2>4
    <3>2. \A l \in Defaults' : l \in Defaults \/ (default /\ l = own)
      BY <2>7
    <3>3. default => \A l \in Defaults' : l # own => l \notin setting[s].clears
      BY <2>7, <3>1
    <3>4. QED
      BY <3>1, <3>2, <3>3, OwnersAfter
  <2>9. QED
    BY <1>2, <2>3, <2>8 DEF LanguagesInv
<1>8. QED
  BY <1>2, <1>6, <1>7

LEMMA DeleteLanguageKeeps ==
  ASSUME LanguagesInv, DeleteLanguage
  PROVE  LanguagesInv' /\ UNCHANGED <<editVars, visitVars>>
<1>1. LanguageTypes /\ DefaultsOwned
  BY DEF LanguagesInv
<1>2. PICK l \in Languages :
        /\ languageIs' = [languageIs EXCEPT ![l] = "none"]
        /\ settings < MaxSettings /\ settings' = settings + 1
        /\ UNCHANGED <<setting, editVars, visitVars>>
  BY DEF DeleteLanguage, Offered
<1>3. settings' \in 0 .. MaxSettings
  BY <1>1, <1>2, NoticesAssumption DEF LanguageTypes
<1>4. LanguageTypes'
  BY <1>1, <1>2, <1>3 DEF LanguageTypes
<1>5. DefaultsOwned'
  <2>1. PICK before, after : before = Defaults /\ after = Defaults'
    OBVIOUS
  <2>2. after \subseteq before
    BY <1>1, <1>2, <2>1 DEF Defaults, LanguageTypes
  <2>3. PICK owner \in [before -> Linguists] : SetBy(owner)
    BY <1>1, <2>1 DEF DefaultsOwned
  <2>4. PICK next : next = [m \in after |-> owner[m]]
    OBVIOUS
  <2>5. next \in [after -> Linguists] /\ \A m \in after : next[m] = owner[m]
    BY <2>2, <2>3, <2>4
  <2>6. \A m, n \in after : next[m] = next[n] => m = n
    BY <2>1, <2>2, <2>3, <2>5 DEF SetBy
  <2>7. \A m \in after :
          setting[next[m]] # NoSetting /\ setting[next[m]].default => m \in setting[next[m]].clears
    BY <2>1, <2>2, <2>3, <2>5 DEF SetBy
  <2>8. QED
    BY <1>2, <2>1, <2>5, <2>6, <2>7 DEF DefaultsOwned, SetBy
<1>6. QED
  BY <1>2, <1>4, <1>5 DEF LanguagesInv

LEMMA LanguagesRest ==
  ASSUME LanguagesInv, UNCHANGED languageVars PROVE LanguagesInv'
BY DEF LanguagesInv, LanguageTypes, DefaultsOwned, SetBy, Defaults, languageVars

LEMMA NoticesStart ==
  ASSUME NoticesInit PROVE NoticesInv
<1>1. EditsInv
  BY EditsStart
<1>2. VisitsInv
  <2>1. 0 \in 0 .. MaxVisits
    BY NoticesAssumption
  <2>2. QED
    BY <2>1 DEF NoticesInit, VisitsInv, VisitTypes, PageStates, Ack
<1>3. LanguageTypes
  <2>1. 0 \in 0 .. MaxSettings
    BY NoticesAssumption
  <2>2. QED
    BY <2>1, NoSettingIs DEF NoticesInit, LanguageTypes
<1>4. DefaultsOwned
  <2>1. Defaults = {}
    BY DEF NoticesInit, Defaults
  <2>2. PICK owner : owner = [l \in Defaults |-> CHOOSE s \in Linguists : TRUE]
    OBVIOUS
  <2>3. owner \in [Defaults -> Linguists] /\ SetBy(owner)
    BY <2>1, <2>2 DEF SetBy
  <2>4. QED
    BY <2>3 DEF DefaultsOwned
<1>5. QED
  BY <1>1, <1>2, <1>3, <1>4 DEF NoticesInv, LanguagesInv

LEMMA NoticesStep ==
  NoticesInv /\ [NoticeNext \/ SetsLanguages]_noticesVars => NoticesInv'
<1>1. SUFFICES ASSUME NoticesInv, [NoticeNext \/ SetsLanguages]_noticesVars PROVE NoticesInv'
  OBVIOUS
<1>2. EditsInv /\ VisitsInv /\ LanguagesInv
  BY <1>1 DEF NoticesInv
<1>3. CASE \E a \in Authors : EditsNotice(a)
  <2>1. PICK a \in Authors : EditsNotice(a)
    BY <1>3
  <2>2. UNCHANGED visitVars /\ UNCHANGED languageVars
    BY <2>1 DEF EditsNotice, CreateNotice, SnapshotFirst, ReadNotice, WriteNotice, SnapshotNext,
                NumberNotice, BreakOff, EditBegins, EditContinues, EditGoes
  <2>3. EditsInv' /\ NoticeGrows
    BY <1>2, <2>1, EditsStep
  <2>4. QED
    BY <1>2, <2>2, <2>3, VisitsStay, LanguagesRest DEF NoticesInv
<1>4. CASE Visits
  <2>1. UNCHANGED languageVars
    BY <1>4 DEF Visits, ServeScript, ServeByType, Served, ShowByType, CloseNotice, ReadNow,
                ReportVisit, Acknowledges, LeavePage, RecordNoticeAcknowledgement
  <2>2. VisitsInv' /\ UNCHANGED editVars
    <3>1. CASE ServeScript \/ ServeByType
      <4>1. PICK at \in {"loaded", "client"} : Served(at)
        BY <3>1 DEF ServeScript, ServeByType
      <4>2. QED
        BY <1>2, <4>1, ServedKeeps DEF Served
    <3>2. CASE ShowByType \/ CloseNotice \/ LeavePage
      BY <1>2, <3>2, PageKeeps
    <3>3. CASE ReadNow \/ ReportVisit
      BY <1>2, <3>3, AcknowledgeKeeps
    <3>4. CASE RecordNoticeAcknowledgement
      BY <1>2, <3>4, RecordAcknowledgementKeeps
    <3>5. QED
      BY <1>4, <3>1, <3>2, <3>3, <3>4 DEF Visits
  <2>3. EditsInv'
    BY <1>2, <2>2, EditsRest
  <2>4. QED
    BY <1>2, <2>1, <2>2, <2>3, LanguagesRest DEF NoticesInv
<1>5. CASE SetsLanguages
  <2>1. LanguagesInv' /\ UNCHANGED <<editVars, visitVars>>
    BY <1>2, <1>5, SettingBeginsKeeps, SettingEndsKeeps, DeleteLanguageKeeps DEF SetsLanguages
  <2>2. EditsInv' /\ NoticeGrows
    BY <1>2, <2>1, EditsRest
  <2>3. VisitsInv'
    BY <1>2, <2>1, <2>2, VisitsStay
  <2>4. QED
    BY <2>1, <2>2, <2>3 DEF NoticesInv
<1>6. CASE UNCHANGED noticesVars
  <2>1. UNCHANGED editVars /\ UNCHANGED visitVars /\ UNCHANGED languageVars
    BY <1>6 DEF noticesVars
  <2>2. EditsInv' /\ NoticeGrows
    BY <1>2, <2>1, EditsRest
  <2>3. QED
    BY <1>2, <2>1, <2>2, VisitsStay, LanguagesRest DEF NoticesInv
<1>7. QED
  BY <1>1, <1>3, <1>4, <1>5, <1>6 DEF NoticeNext

LEMMA NoticesInvHolds == NoticesInv => NoticesTypeOK /\ NoticesHold
<1>1. SUFFICES ASSUME NoticesInv PROVE NoticesTypeOK /\ NoticesHold
  OBVIOUS
<1>2. /\ NoticeTypes /\ VisitTypes /\ LanguageTypes
      /\ RowsRun /\ RowsOwed /\ EditsTidy /\ VisitsInv /\ DefaultsOwned
      /\ notice.version \in Nat /\ (notice # NoNotice => notice.version > 0)
  BY <1>1, NoticeIs DEF NoticesInv, EditsInv, VisitsInv, LanguagesInv
<1>3. NoticesTypeOK
  BY <1>2 DEF NoticesTypeOK, NoticeTypes, VisitTypes, LanguageTypes
<1>4. EditsInFlight = {} => \A a \in Authors : edit[a] = NoEdit /\ edit[a].step = "idle"
  BY NoEditIs DEF EditsInFlight
<1>5. VersionsNumbered
  <2>1. notice # NoNotice /\ EditsInFlight = {} /\ aborts = 0 =>
          1 \in DOMAIN versions /\ notice.version + 1 \notin DOMAIN versions
    BY <1>2, <1>4 DEF RowsOwed
  <2>2. notice # NoNotice =>
          2 .. notice.version \subseteq DOMAIN versions
          /\ DOMAIN versions \subseteq 1 .. notice.version + 1
    BY <1>2 DEF RowsRun
  <2>3. notice # NoNotice /\ EditsInFlight = {} /\ aborts = 0 =>
          DOMAIN versions = 1 .. notice.version
    <3>1. PICK n, rows : n = notice.version /\ rows = DOMAIN versions
      OBVIOUS
    <3>2. SUFFICES ASSUME notice # NoNotice, EditsInFlight = {}, aborts = 0
                   PROVE  rows = 1 .. n
      BY <3>1
    <3>3. n \in Nat /\ n > 0 /\ 1 \in rows /\ n + 1 \notin rows
          /\ 2 .. n \subseteq rows /\ rows \subseteq 1 .. n + 1
      BY <1>2, <2>1, <2>2, <3>1, <3>2
    <3>4. \A m \in 1 .. n : m \in rows
      BY <3>3
    <3>5. \A m \in rows : m \in 1 .. n
      BY <3>3
    <3>6. QED
      BY <3>4, <3>5
  <2>4. QED
    BY <2>2, <2>3 DEF VersionsNumbered
<1>6. TextIsVersioned
  BY <1>2, <1>4 DEF TextIsVersioned, EditsTidy
<1>7. AcknowledgedIsShown
  BY <1>2 DEF AcknowledgedIsShown, VisitsInv, SeenFits
<1>8. DefaultsWithinCalls
  <2>1. PICK owner \in [Defaults -> Linguists] : SetBy(owner)
    BY <1>2 DEF DefaultsOwned
  <2>2. owner \in Injection(Defaults, Linguists)
    BY <2>1 DEF SetBy, Injection, IsInjective
  <2>3. QED
    BY <2>2, NoticesAssumption, FS_Injection DEF DefaultsWithinCalls
<1>9. QED
  BY <1>3, <1>5, <1>6, <1>7, <1>8 DEF NoticesHold

\* However edits overlap and break off: the versions of a notice run from 1 to the
\* current one but for what such an edit has left, and carry its text where no edit
\* overlapped or broke off; an acknowledgement names a version no older than the
\* page; and no more languages are the default than calls set one at a time.
THEOREM NoticesStayTrue == NoticesSpec => [](NoticesTypeOK /\ NoticesHold)
<1>1. NoticesInit => NoticesInv
  BY NoticesStart
<1>2. QED
  BY <1>1, NoticesStep, NoticesInvHolds, PTL DEF NoticesSpec
=============================================================================
