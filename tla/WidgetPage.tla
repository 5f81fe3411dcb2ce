----------------------------- MODULE WidgetPage -----------------------------
(***************************************************************************)
(* The consent widget in a visitor's page, as the script the server makes  *)
(* for it, and the verification it asks for: a one-time code sent to the   *)
(* visitor or a guardian, and the Aadhaar number.  Codes and marks live in *)
(* a cache that is read and written in separate commands; the answers of   *)
(* the server come back in any order, to a widget that may have been       *)
(* closed, shown again or filled in differently meanwhile.                 *)
(***************************************************************************)
EXTENDS Naturals, FiniteSets

CONSTANTS
  Addresses,    \* email addresses
  Guardian,     \* the one the visitor names as the guardian's
  Fetches,      \* fetches of the page in flight at a time
  None,         \* no entry, no address
  MaxWrong,     \* CONSENT_OTP_MAX_ATTEMPTS
  MaxFetches    \* bound: fetches of the page

ASSUME WidgetAssumption ==
  /\ Guardian \in Addresses
  /\ None \notin Addresses
  /\ MaxWrong \in Nat
  /\ MaxFetches \in Nat

VARIABLES
  template,     \* what the template asks for
  page,         \* the script's variables and form
  reopening,    \* the timer of the language switch runs
  fetch,        \* fetch[f]: the request f of the page, and how far it is
  fetches,      \* requests so far
  entry,        \* consent_otp:<address>: the code and wrong answers, or None
  mark,         \* consent_otp_verified:<address>
  aadhaar,      \* Aadhaar transactions open, and the verified mark
  confirmed,    \* addresses for which a right answer was given
  records       \* the consent records made

cache == <<entry, mark, aadhaar, confirmed>>
widgetVars == <<template, page, reopening, fetch, fetches, cache, records>>

\* "none": the field is empty, and null is sent.
Ages == {"none", "minor", "adult"}

Page == [overlay : {"absent", "shown", "hiding"}, age : Ages, email : Addresses,
         otpVerified : BOOLEAN, aadhaarVerified : BOOLEAN, transaction : BOOLEAN,
         busy : BOOLEAN]

NoFetch == [step |-> "idle"]
Fetch ==
  {NoFetch}
  \cup [step : {"send", "verify", "record", "initiate", "confirm", "unmark", "mark",
                "clear", "drop", "confirmed"},
        kind : {"send", "verify", "record", "initiate", "confirm"},
        age : Ages, email : Addresses]
  \cup [step : {"miss"}, kind : {"verify"}, age : Ages, email : Addresses, wrong : Nat]
  \cup [step : {"answer"},
        kind : {"send", "verify", "record", "initiate", "confirm", "translate"}, ok : BOOLEAN]

Record == [address : Addresses, verified : BOOLEAN]

\* The types, and a count of wrong answers that no overlap takes past the limit.
WidgetTypeOK ==
  /\ template \in [otp : BOOLEAN, parental : BOOLEAN, aadhaar : BOOLEAN]
  /\ page \in Page
  /\ reopening \in BOOLEAN
  /\ fetch \in [Fetches -> Fetch]
  /\ fetches \in 0 .. MaxFetches
  /\ entry \in [Addresses -> (0 .. MaxWrong) \cup {None}]
  /\ mark \in [Addresses -> BOOLEAN]
  /\ aadhaar \in [open : BOOLEAN, verified : BOOLEAN]
  /\ confirmed \subseteq Addresses
  /\ records \subseteq Record

WidgetInit ==
  /\ template \in [otp : BOOLEAN, parental : BOOLEAN, aadhaar : BOOLEAN]
  /\ page \in [overlay : {"absent"}, age : {"none"}, email : Addresses \ {Guardian},
               otpVerified : {FALSE}, aadhaarVerified : {FALSE}, transaction : {FALSE},
               busy : {FALSE}]
  /\ reopening = FALSE
  /\ fetch = [f \in Fetches |-> NoFetch]
  /\ fetches = 0
  /\ entry = [a \in Addresses |-> None]
  /\ mark = [a \in Addresses |-> FALSE]
  /\ aadhaar = [open |-> FALSE, verified |-> FALSE]
  /\ confirmed = {}
  /\ records = {}

------------------------------------------------------------------------------
(* Whom to verify: the rules of the server.                                *)

\* isMinorBelowThreshold: Number(null) is 0, below any threshold.
BelowThreshold(age) == template.parental /\ age # "adult"

\* isOtpNeededForSubmission skips an age that is null.
OtpNeeded(age) == template.otp \/ (age # "none" /\ BelowThreshold(age))

\* Mutant: the code goes to the visitor, whatever the age.
RecipientSelf(r) == r.email

\* resolveOtpRecipient.  The page leaves the guardian's address out unless the
\* age is below the threshold, and the server then refuses.
Recipient(r) ==
  CASE BelowThreshold(r.age) /\ r.age = "minor" -> Guardian
    [] BelowThreshold(r.age) /\ r.age = "none"  -> None
    [] OTHER                                    -> r.email

\* resolveContext: in whose name the consent is recorded.
RecordedAs(r) == IF BelowThreshold(r.age) THEN Guardian ELSE r.email

\* buildVerificationMeta: whether the record says that a code was answered.
SaysVerified(r) == BelowThreshold(r.age) \/ template.otp

------------------------------------------------------------------------------
(* The widget.                                                             *)

Quiet == UNCHANGED <<template, fetch, fetches, cache, records>>
Overlay == page.overlay # "absent"

\* showWidget does nothing while an overlay is in the document, one that fades
\* included; a new one has an empty form and enabled buttons.  interceptForm brings
\* it up in the same way when a form of the page is submitted.
Shown(p) == [p EXCEPT !.overlay = "shown", !.age = "none", !.otpVerified = FALSE, !.busy = FALSE]

Show ==
  /\ ~Overlay
  /\ page' = Shown(page)
  /\ UNCHANGED reopening
  /\ Quiet

\* hideWidget, by the close button, a click outside, or the API.
Hidden(p) == IF p.overlay = "shown" THEN [p EXCEPT !.overlay = "hiding"] ELSE p

Hide ==
  /\ page.overlay = "shown"
  /\ page' = Hidden(page)
  /\ UNCHANGED reopening
  /\ Quiet

\* The overlay is removed 300 ms later, the widget shown again after 350.
Remove ==
  /\ page.overlay = "hiding"
  /\ page' = [page EXCEPT !.overlay = "absent"]
  /\ UNCHANGED reopening
  /\ Quiet

Reopen ==
  /\ reopening
  /\ page.overlay # "hiding"
  /\ reopening' = FALSE
  /\ page' = IF Overlay THEN page ELSE Shown(page)
  /\ Quiet

\* A change of the age forgets that a code was answered ...
EnterAge(age) ==
  /\ page.overlay = "shown"
  /\ template.parental
  /\ page.age # age
  /\ page' = [page EXCEPT !.age = age, !.otpVerified = FALSE]
  /\ UNCHANGED reopening
  /\ Quiet

\* ... and a change of the address does not.
EnterEmail(email) ==
  /\ page.overlay = "shown"
  /\ page.email # email
  /\ page' = [page EXCEPT !.email = email]
  /\ UNCHANGED reopening
  /\ Quiet

\* Switching back to the default language needs no server.
SwitchToDefault ==
  /\ page.overlay = "shown"
  /\ page' = Hidden(page)
  /\ reopening' = TRUE
  /\ Quiet

------------------------------------------------------------------------------
(* What the page asks of the server.  A button is disabled while its own   *)
(* request is under way, but a widget that is closed and shown again has   *)
(* new ones: only the guard of submitConsent is kept, as "busy".           *)

Asks(f, r) ==
  /\ fetch[f] = NoFetch
  /\ fetches < MaxFetches
  /\ fetches' = fetches + 1
  /\ fetch' = [fetch EXCEPT ![f] = r]
  /\ UNCHANGED <<template, cache, records>>

Said(kind) == [step |-> kind, kind |-> kind, age |-> page.age, email |-> page.email]
Answer(kind, ok) == [step |-> "answer", kind |-> kind, ok |-> ok]

\* The page's own idea: an empty age is not below the threshold.
BelowOnPage == template.parental /\ page.age = "minor"
NeededOnPage == template.otp \/ BelowOnPage

SendOtp(f) ==
  /\ page.overlay = "shown"
  /\ NeededOnPage
  /\ Asks(f, Said("send"))
  /\ UNCHANGED <<page, reopening>>

VerifyOtp(f) ==
  /\ page.overlay = "shown"
  /\ NeededOnPage
  /\ ~page.otpVerified
  /\ Asks(f, Said("verify"))
  /\ UNCHANGED <<page, reopening>>

InitiateAadhaar(f) ==
  /\ page.overlay = "shown"
  /\ template.aadhaar
  /\ Asks(f, Said("initiate"))
  /\ UNCHANGED <<page, reopening>>

ConfirmAadhaar(f) ==
  /\ page.overlay = "shown"
  /\ template.aadhaar
  /\ page.transaction
  /\ Asks(f, Said("confirm"))
  /\ UNCHANGED <<page, reopening>>

\* validateForm.
Valid ==
  /\ template.parental => page.age # "none"
  /\ NeededOnPage => page.otpVerified
  /\ template.aadhaar => page.aadhaarVerified

\* submitConsent: all three buttons send a consent, with the purposes chosen.
Submit(f) ==
  /\ page.overlay = "shown"
  /\ ~page.busy
  /\ Valid
  /\ Asks(f, Said("record"))
  /\ page' = [page EXCEPT !.busy = TRUE]
  /\ UNCHANGED reopening

\* A switch of the language fetches the texts, which are not modelled.
SwitchLanguage(f) ==
  /\ page.overlay = "shown"
  /\ \E ok \in BOOLEAN : Asks(f, Answer("translate", ok))
  /\ UNCHANGED <<page, reopening>>

------------------------------------------------------------------------------
(* The server at work on a request.                                        *)

Works(f, step, to) ==
  /\ fetch[f].step = step
  /\ fetch' = [fetch EXCEPT ![f] = to]
  /\ UNCHANGED <<template, page, reopening, fetches>>

Then(f, step) == [fetch[f] EXCEPT !.step = step]
Refused(f) == Answer(fetch[f].kind, FALSE)
Done(f) == Answer(fetch[f].kind, TRUE)
Goal(f) == Recipient(fetch[f])

\* The new code replaces the entry ...
StoreCode(f) ==
  /\ fetch[f].step = "send"
  /\ IF OtpNeeded(fetch[f].age) /\ Goal(f) # None
     THEN /\ Works(f, "send", Then(f, "unmark"))
          /\ entry' = [entry EXCEPT ![Goal(f)] = 0]
     ELSE Works(f, "send", Refused(f)) /\ UNCHANGED entry
  /\ UNCHANGED <<mark, aadhaar, confirmed, records>>

\* ... and then the mark goes.  The mail may fail: the code stays.
DropMark(f) ==
  /\ \E sent \in BOOLEAN : Works(f, "unmark", Answer("send", sent))
  /\ mark' = [mark EXCEPT ![Goal(f)] = FALSE]
  /\ UNCHANGED <<entry, aadhaar, confirmed, records>>

Spent(wrong) == wrong >= MaxWrong

\* verifyOtp reads the entry and compares.
CompareCode(f) ==
  LET g == Goal(f) IN
  /\ fetch[f].step = "verify"
  /\ IF ~OtpNeeded(fetch[f].age) \/ g = None
     THEN Works(f, "verify", Refused(f)) /\ UNCHANGED confirmed
     ELSE IF entry[g] = None
     THEN Works(f, "verify", Refused(f)) /\ UNCHANGED confirmed
     ELSE IF Spent(entry[g])
     THEN Works(f, "verify", Then(f, "drop")) /\ UNCHANGED confirmed
     ELSE \/ /\ Works(f, "verify", Then(f, "mark"))
             /\ confirmed' = confirmed \cup {g}
          \/ /\ Works(f, "verify", [step |-> "miss", kind |-> "verify", age |-> fetch[f].age,
                                    email |-> fetch[f].email, wrong |-> entry[g] + 1])
             /\ UNCHANGED confirmed
  /\ UNCHANGED <<entry, mark, aadhaar, records>>

\* A wrong answer writes back the entry it read, with one more, over a newer one
\* if there is one, and for another ten minutes.
CountWrong(f) ==
  /\ Works(f, "miss", Refused(f))
  /\ entry' = [entry EXCEPT ![Goal(f)] = fetch[f].wrong]
  /\ UNCHANGED <<mark, aadhaar, confirmed, records>>

SetMark(f) ==
  /\ Works(f, "mark", Then(f, "clear"))
  /\ mark' = [mark EXCEPT ![Goal(f)] = TRUE]
  /\ UNCHANGED <<entry, aadhaar, confirmed, records>>

\* Also a code sent since is deleted.
DeleteCode(f) ==
  /\ \/ Works(f, "clear", Done(f))
     \/ Works(f, "drop", Refused(f))
  /\ entry' = [entry EXCEPT ![Goal(f)] = None]
  /\ UNCHANGED <<mark, aadhaar, confirmed, records>>

OpenTransaction(f) ==
  /\ Works(f, "initiate", Done(f))
  /\ aadhaar' = [aadhaar EXCEPT !.open = TRUE]
  /\ UNCHANGED <<entry, mark, confirmed, records>>

\* verifyConsentOtp: any number of wrong answers; a right one sets the mark ...
CompareAadhaar(f) ==
  /\ \/ aadhaar.open /\ Works(f, "confirm", Then(f, "confirmed"))
     \/ Works(f, "confirm", Refused(f))
  /\ aadhaar' = IF fetch'[f].step = "confirmed" THEN [aadhaar EXCEPT !.verified = TRUE] ELSE aadhaar
  /\ UNCHANGED <<entry, mark, confirmed, records>>

\* ... and deletes the transaction.
CloseTransaction(f) ==
  /\ Works(f, "confirmed", Done(f))
  /\ aadhaar' = [aadhaar EXCEPT !.open = FALSE]
  /\ UNCHANGED <<entry, mark, confirmed, records>>

\* recordPublicConsent, once it has found the widget: assertVerified and
\* assertConsentAadhaarVerified, and the record.
MakeRecord(f) ==
  LET r == fetch[f] IN
  /\ r.step = "record"
  /\ IF /\ OtpNeeded(r.age) => Goal(f) # None /\ mark[Goal(f)]
        /\ template.aadhaar => aadhaar.verified
     THEN /\ Works(f, "record", Done(f))
          /\ records' = records \cup
               {[address |-> RecordedAs(r), verified |-> SaysVerified(r)]}
     ELSE Works(f, "record", Refused(f)) /\ UNCHANGED records
  /\ UNCHANGED cache

\* An entry or a mark reaches the end of its time in the cache.
Forget ==
  /\ \/ \E a \in Addresses :
          /\ entry[a] # None
          /\ entry' = [entry EXCEPT ![a] = None]
          /\ UNCHANGED <<mark, aadhaar>>
     \/ \E a \in Addresses :
          /\ mark[a]
          /\ mark' = [mark EXCEPT ![a] = FALSE]
          /\ UNCHANGED <<entry, aadhaar>>
     \/ /\ aadhaar.verified
        /\ aadhaar' = [aadhaar EXCEPT !.verified = FALSE]
        /\ UNCHANGED <<entry, mark>>
  /\ UNCHANGED <<template, page, reopening, fetch, fetches, confirmed, records>>

------------------------------------------------------------------------------
(* Answers of the server.                                                  *)

AfterOtp(p, ok) == [p EXCEPT !.otpVerified = ok]

Heard(p, r) ==
  CASE r.kind = "send"     -> IF r.ok THEN [p EXCEPT !.otpVerified = FALSE] ELSE p
    [] r.kind = "verify"   -> AfterOtp(p, r.ok)
    [] r.kind = "initiate" -> IF r.ok THEN [p EXCEPT !.transaction = TRUE, !.aadhaarVerified = FALSE]
                              ELSE p
    [] r.kind = "confirm"  -> [p EXCEPT !.aadhaarVerified = r.ok]
    [] r.kind = "record"   -> IF r.ok THEN Hidden(p) ELSE [p EXCEPT !.busy = FALSE]
    [] r.kind = "translate" -> Hidden(p)

\* It acts on the page as it is by now.
Hear(f) ==
  LET r == fetch[f] IN
  /\ r.step = "answer"
  /\ page' = Heard(page, r)
  /\ reopening' = (reopening \/ r.kind = "translate")
  /\ fetch' = [fetch EXCEPT ![f] = NoFetch]
  /\ UNCHANGED <<template, fetches, cache, records>>

\* The connection breaks before or after the server has done its part.
Lose(f) ==
  /\ fetch[f].step # "idle"
  /\ fetch[f].kind # "translate"
  /\ fetch' = [fetch EXCEPT ![f] = Refused(f)]
  /\ fetch[f].step \in {"send", "verify", "record", "initiate", "confirm", "answer"}
  /\ UNCHANGED <<template, page, reopening, fetches, cache, records>>

------------------------------------------------------------------------------
Visitor ==
  \/ Show \/ Hide
  \/ \E age \in Ages : EnterAge(age)
  \/ \E email \in Addresses : EnterEmail(email)
  \/ SwitchToDefault
  \/ \E f \in Fetches :
       \/ SendOtp(f) \/ VerifyOtp(f)
       \/ InitiateAadhaar(f) \/ ConfirmAadhaar(f)
       \/ Submit(f)
       \/ SwitchLanguage(f)

Server == \E f \in Fetches :
  \/ StoreCode(f) \/ DropMark(f)
  \/ CompareCode(f) \/ CountWrong(f) \/ SetMark(f) \/ DeleteCode(f)
  \/ OpenTransaction(f) \/ CompareAadhaar(f) \/ CloseTransaction(f)
  \/ MakeRecord(f)

WidgetNext ==
  \/ Visitor
  \/ Remove \/ Reopen
  \/ Server
  \/ Forget
  \/ \E f \in Fetches : Hear(f) \/ Lose(f)

WidgetSpec == WidgetInit /\ [][WidgetNext]_widgetVars

------------------------------------------------------------------------------
(* Properties.                                                             *)

\* A consent whose record says that a code was answered was confirmed by the
\* very address it is recorded under, the guardian's for a minor: although
\* the address and the age may change between the code and the submission,
\* the page forgets a verification on the one change only, and answers,
\* resends and submissions overlap.
RecordedIsVerified ==
  \A r \in records : r.verified => r.address \in confirmed
=============================================================================
