------------------------------- MODULE Wallet -------------------------------
(***************************************************************************)
(* The user's money and profile: the LoginBean cached in shared            *)
(* preferences, the server's record of it, and the screens that change     *)
(* both.  Every change sends absolute values computed from the cached bean *)
(* (or from a copy of it taken earlier) and writes the whole bean back     *)
(* when the reply comes.  Replies come in any order, or not at all.        *)
(***************************************************************************)
EXTENDS Naturals

CONSTANTS
  Envelope,   \* red envelopes the user has received
  Worth,      \* envelope -> its money
  Amount,     \* what the user may type into a red envelope
  Field,      \* fields of the profile: username, location, sign, email and
  Picture,    \* ... the imageUrl
  Value,      \* what a field may hold
  First,      \* the profile at login
  Start,      \* the money at login
  MaxClicks,  \* how often the user sends, claims or saves
  MaxLost,    \* how many requests time out
  Refuses     \* may the server answer with code 0?

ASSUME WorthAssumption == Worth \in [Envelope -> Nat] /\ Start \in Nat
ASSUME AmountAssumption == Amount \subseteq Nat
ASSUME ProfileAssumption == Picture \in Field /\ First \in [Field -> Value]
ASSUME ClicksAssumption == MaxClicks \in Nat /\ MaxLost \in Nat
ASSUME ServerAssumption == Refuses \in BOOLEAN

VARIABLES
  cache,     \* SPKey_USERINFO
  userInfo,  \* UserInfoActivity's copy of it
  image_url, \* the picture it shows
  screen,    \* the activity on top
  dialogs,   \* screens whose loading dialog is showing
  received,  \* envelope -> does the chat list show it as received?
  pending,   \* requests under way
  server,    \* the server's record of the user
  marked,    \* envelopes the server counts as received
  credited,  \* envelopes whose money reached the server's record (history)
  credits,   \* money the server has added for envelopes received
  debits,    \* money the server has taken for envelopes to others
  gifts,     \* money in the red envelopes handed to the socket
  clicks, lost,
  hasty,     \* did the user go on while a request was under way? (history)
  unsent     \* fields of the cached profile last written there without having
             \* been sent (history)

store  == <<server, marked, credited, credits, debits>>
budget == <<clicks, lost>>
profile == <<userInfo, image_url, unsent>>
walletVars == <<cache, profile, screen, dialogs, received, pending, store, gifts, budget, hasty>>

Screen == {"main", "chat", "envelope", "profile"}
Bean == [money : Nat, profile : [Field -> Value]]
Phase == {"asked", "done", "refused"}

(* A request and the reply the client is waiting for.  "bean" is what the  *)
(* reply writes to the cache, "of" tells which operation it belongs to.    *)
(* Two equal requests the client has given up count as one: serving the    *)
(* second changes nothing.                                                 *)
Request(kinds, ofs) ==
  [kind : kinds, of : ofs, money : Nat, bean : Bean, phase : Phase, awaited : BOOLEAN]

WalletTypeOK ==
  /\ cache \in Bean /\ userInfo \in Bean /\ server \in Bean
  /\ screen \in Screen /\ dialogs \subseteq Screen
  /\ received \in [Envelope -> BOOLEAN] /\ marked \subseteq Envelope
  /\ pending \subseteq Request({"debit"}, Amount) \cup Request({"edit"}, SUBSET Field)
                       \cup Request({"credit", "mark"}, Envelope)
  /\ credited \subseteq Envelope
  /\ credits \in Nat /\ debits \in Nat /\ gifts \in Nat
  /\ clicks \in 0 .. MaxClicks /\ lost \in 0 .. MaxLost
  /\ image_url \in Value /\ unsent \subseteq Field
  /\ hasty \in BOOLEAN

WalletInit ==
  /\ cache = [money |-> Start, profile |-> First]
  /\ userInfo = cache /\ server = cache
  /\ image_url = First[Picture] /\ unsent = {}
  /\ screen = "main" /\ dialogs = {}
  /\ received = [e \in Envelope |-> FALSE] /\ marked = {}
  /\ pending = {}
  /\ credited = {} /\ credits = 0 /\ debits = 0 /\ gifts = 0
  /\ hasty = FALSE
  /\ clicks = 0 /\ lost = 0

(* A click arrives only when no loading dialog covers the screen; whether  *)
(* the user also waits for replies the screen does not show is up to the   *)
(* user.                                                                   *)
MayClick(s) == screen = s /\ s \notin dialogs /\ hasty' = (hasty \/ pending # {})

Ask(k, o, m, b) ==
  [kind |-> k, of |-> o, money |-> m, bean |-> b, phase |-> "asked", awaited |-> TRUE]

-----------------------------------------------------------------------------
(* Moving between the screens.                                             *)

Go(from, to) ==
  /\ MayClick(from) /\ screen' = to
  /\ UNCHANGED <<cache, dialogs, pending, store, gifts, budget>>

(* The chat's messages come from the server, with their status.            *)
OpenChat == Go("main", "chat") /\ received' = [e \in Envelope |-> e \in marked]
                               /\ UNCHANGED profile
OpenEnvelope == Go("chat", "envelope") /\ UNCHANGED <<profile, received>>
(* image_url = "", which is never sent, is the picture the copy has.       *)
OpenProfile ==
  /\ Go("main", "profile")
  /\ userInfo' = cache /\ image_url' = cache.profile[Picture]
  /\ UNCHANGED <<received, unsent>>
Back ==
  /\ \/ Go("chat", "main") \/ Go("profile", "main") \/ Go("envelope", "chat")
  /\ UNCHANGED <<profile, received>>

-----------------------------------------------------------------------------
(* Requests.                                                               *)

(* RedEnvelopePresenter.sendRedEnvelope.  sub.equals("0.00") compares a    *)
(* BigDecimal with a String and is never true, so that only what leaves    *)
(* more than nothing is affordable.                                        *)
Affordable(a) == cache.money > a

sendRedEnvelope(a) ==
  /\ MayClick("envelope")
  /\ clicks < MaxClicks /\ clicks' = clicks + 1
  /\ IF Affordable(a)
       THEN LET sub == cache.money - a IN
            /\ pending' = pending \cup {Ask("debit", a, sub, [cache EXCEPT !.money = sub])}
            /\ dialogs' = dialogs \cup {"envelope"}
       ELSE UNCHANGED <<pending, dialogs>>
  /\ UNCHANGED <<cache, profile, screen, received, store, gifts, lost>>

(* ChatPresenter.updateMoney: the bean with an envelope's money added.     *)
MutCreditedStaleCopy(e) == [userInfo EXCEPT !.money = @ + Worth[e]]
CreditedBean(e) == [cache EXCEPT !.money = @ + Worth[e]]

(* ChatActivity.onClickRedEnvelope: the status of the envelope and the     *)
(* money are two requests, and the list is updated without waiting.        *)
onClickRedEnvelope(e) ==
  /\ MayClick("chat") /\ ~received[e]
  /\ clicks < MaxClicks /\ clicks' = clicks + 1
  /\ LET bean == CreditedBean(e) IN
     pending' = pending \cup {Ask("mark", e, 0, cache), Ask("credit", e, bean.money, bean)}
  /\ dialogs' = dialogs \cup {"chat"}
  /\ received' = [received EXCEPT ![e] = TRUE]
  /\ UNCHANGED <<cache, profile, screen, store, gifts, lost>>

(* UserInfoActivity.onSuccess(url): a picture chosen is uploaded under the *)
(* screen's dialog and written to the cache.  Nothing tells the server of  *)
(* it before the profile is saved.                                         *)
PictureUploaded(url) ==
  /\ MayClick("profile")
  /\ clicks < MaxClicks /\ clicks' = clicks + 1
  /\ image_url' = url
  /\ cache' = [cache EXCEPT !.profile[Picture] = url]
  /\ unsent' = unsent \cup {Picture}
  /\ UNCHANGED <<userInfo, screen, dialogs, received, pending, store, gifts, lost>>

(* UserInfoPresenter.changeUserInfo: every field that differs from the     *)
(* copy is sent and changed in the copy before the reply, and stays        *)
(* changed when the save fails: it is not sent with the next one.          *)
changeUserInfo(shown) ==
  LET changed == {f \in Field : shown[f] # userInfo.profile[f]} IN
  /\ MayClick("profile") /\ shown[Picture] = image_url
  /\ clicks < MaxClicks /\ clicks' = clicks + 1
  /\ userInfo' = [userInfo EXCEPT !.profile = shown]
  /\ IF changed # {}
       THEN /\ pending' = pending \cup {Ask("edit", changed, 0, userInfo')}
            /\ dialogs' = dialogs \cup {"profile"}
       ELSE UNCHANGED <<pending, dialogs>>
  /\ UNCHANGED <<cache, image_url, unsent, screen, received, store, gifts, lost>>

-----------------------------------------------------------------------------
(* The server.                                                             *)

(* What a served request leaves under way: its reply, if still awaited.    *)
Answer(r, phase) ==
  pending' = (pending \ {r}) \cup (IF r.awaited THEN {[r EXCEPT !.phase = phase]} ELSE {})

Serve(r) ==
  /\ r \in pending /\ r.phase = "asked"
  /\ Answer(r, "done")
  /\ server' = CASE r.kind \in {"debit", "credit"} -> [server EXCEPT !.money = r.money]
                 [] r.kind = "edit" -> [server EXCEPT !.profile = [f \in Field |->
                                          IF f \in r.of THEN r.bean.profile[f] ELSE @[f]]]
                 [] r.kind = "mark" -> server
  /\ marked' = IF r.kind = "mark" THEN marked \cup {r.of} ELSE marked
  /\ credited' = IF r.kind = "credit" THEN credited \cup {r.of} ELSE credited
  /\ credits' = IF r.kind = "credit" THEN credits + Worth[r.of] ELSE credits
  /\ debits' = IF r.kind = "debit" THEN debits + r.of ELSE debits
  /\ UNCHANGED <<cache, profile, screen, dialogs, received, gifts, budget, hasty>>

Refuse(r) ==
  /\ Refuses
  /\ r \in pending /\ r.phase = "asked"
  /\ Answer(r, "refused")
  /\ UNCHANGED <<cache, profile, screen, dialogs, received, store, gifts, budget, hasty>>

-----------------------------------------------------------------------------
(* Replies.                                                                *)

DialogOf(kind) == CASE kind = "debit" -> "envelope" [] kind = "edit" -> "profile"
                    [] kind \in {"credit", "mark"} -> "chat"

(* RedEnvelopeActivity.onSuccess finishes the activity; its result makes   *)
(* ChatActivity.onActivityResult send the envelope.                        *)
HandOver(r) == screen' = "chat" /\ gifts' = gifts + r.of

MutSucceededEarly(r) == r.phase \in {"asked", "done"}

(* What a reply changes in the cached profile.                             *)
Written(r) == {f \in Field : r.bean.profile[f] # cache.profile[f]}

(* onNextEx: the whole bean taken with the request becomes the cache,      *)
(* whatever of it was sent.                                                *)
Succeeded(r) == r.phase = "done"

Success(r) ==
  /\ r \in pending /\ r.awaited /\ Succeeded(r)
  /\ pending' = pending \ {r}
  /\ cache' = IF r.kind = "mark" THEN cache ELSE r.bean
  /\ dialogs' = dialogs \ {DialogOf(r.kind)}
  /\ CASE r.kind = "debit" -> HandOver(r)
       [] r.kind = "edit" -> screen' = "main" /\ UNCHANGED gifts
       [] OTHER -> UNCHANGED <<screen, gifts>>
  /\ unsent' = IF r.kind = "edit" THEN (unsent \cup Written(r)) \ r.of ELSE unsent
  /\ UNCHANGED <<userInfo, image_url, received, store, budget, hasty>>

(* onNextSN: code 0; the cache is left alone.                              *)
MutRefusedWrites(r) ==
  /\ r \in pending /\ r.awaited /\ r.phase = "refused"
  /\ pending' = pending \ {r}
  /\ cache' = r.bean
  /\ dialogs' = dialogs \ {DialogOf(r.kind)}
  /\ UNCHANGED <<profile, screen, received, store, gifts, budget, hasty>>

Refused(r) ==
  /\ r \in pending /\ r.awaited /\ r.phase = "refused"
  /\ pending' = pending \ {r}
  /\ dialogs' = dialogs \ {DialogOf(r.kind)}
  /\ UNCHANGED <<cache, profile, screen, received, store, gifts, budget, hasty>>

(* onErrorEx: the client gives up.  The server may have served the request *)
(* already, may still do so, or never sees it.                             *)
Timeout(r) ==
  /\ r \in pending /\ r.awaited /\ lost < MaxLost /\ lost' = lost + 1
  /\ \/ pending' = pending \ {r}
     \/ r.phase = "asked" /\ pending' = (pending \ {r}) \cup {[r EXCEPT !.awaited = FALSE]}
  /\ dialogs' = dialogs \ {DialogOf(r.kind)}
  /\ UNCHANGED <<cache, profile, screen, received, store, gifts, clicks, hasty>>

-----------------------------------------------------------------------------
Click ==
  \/ OpenChat \/ OpenEnvelope \/ OpenProfile \/ Back
  \/ \E a \in Amount : sendRedEnvelope(a)
  \/ \E e \in Envelope : onClickRedEnvelope(e)
  \/ \E url \in Value : PictureUploaded(url)
  \/ \E shown \in [Field -> Value] : changeUserInfo(shown)

Reply(r) == Success(r) \/ Refused(r) \/ Timeout(r)

WalletNext == Click \/ \E r \in pending : Serve(r) \/ Refuse(r) \/ Reply(r)

(* Every request is served, refused or timed out, and its reply delivered. *)
WalletFairness == WF_walletVars(\E r \in pending : Serve(r)) /\ WF_walletVars(\E r \in pending : Reply(r))

WalletSpec == WalletInit /\ [][WalletNext]_walletVars /\ WalletFairness

-----------------------------------------------------------------------------
Quiet == pending = {}

(* A red envelope is handed to the socket only for money the server has    *)
(* taken before, in every order of replies and timeouts                    *)
(* (RedEnvelopePresenter.onNextEx -> onSuccess -> onActivityResult).       *)
GiftsArePaid == gifts <= debits

(* As long as the user waits for every reply and none is lost, the cached  *)
(* bean and the server's record agree whenever nothing is under way, also  *)
(* after refusals: in the money, and in every field of the profile but     *)
(* those the cache got without their being sent: a picture uploaded, or a  *)
(* change that was refused and that a later save cached with its bean but  *)
(* did not send (UserInfoPresenter.java:46-62, 77).  A save that sends     *)
(* such a field makes it agree again.  Overlapping requests break all of   *)
(* it (README).                                                            *)
CacheAgrees ==
  Quiet /\ ~hasty /\ lost = 0 =>
    /\ cache.money = server.money
    /\ \A f \in Field \ unsent : cache.profile[f] = server.profile[f]

(* The same of all that is typed in, which does not hold.                  *)
TypedAgrees ==
  Quiet /\ ~hasty /\ lost = 0 =>
    \A f \in Field \ {Picture} : cache.profile[f] = server.profile[f]

(* Under the same condition money is neither made nor lost: the server's   *)
(* record holds what it held at login, plus the worth of an envelope each  *)
(* time one was credited, minus what was taken for envelopes.              *)
Conserved ==
  Quiet /\ ~hasty /\ lost = 0 => server.money + debits = Start + credits

(* STATUS_ALREADY_RECEIVED, "received" (ChatMessage.java): once nothing is *)
(* under way, an envelope shown as received has been credited.             *)
ReceivedIsCredited == Quiet => \A e \in Envelope : received[e] => e \in credited
=============================================================================
