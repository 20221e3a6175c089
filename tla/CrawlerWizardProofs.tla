------------------------ MODULE CrawlerWizardProofs ------------------------
(***************************************************************************)
(* The safety of CrawlerWizard for any set of threads and any bounds: the  *)
(* page's pointer never outlives the thread object, no thread crawls on    *)
(* its own, and the results are those of one crawl.                        *)
(***************************************************************************)
EXTENDS CrawlerWizard, TLAPS

After == {"deleteLater", "returning", "ended"}

\* a thread that has a host to probe has one in its queue; an object not made yet has
\* no thread, and no page was made after the present one
ThreadInv ==
  \A c \in Crawlers :
    /\ thread[c] = "probe" => left[c] > 0
    /\ object[c] = "none" => thread[c] = "none"
    /\ ui[c] <= wizard

WaitInv == where = "waiting" => crawler # NoCrawler

\* what was posted was posted by a thread on its way out, the end before the deletion
\* and each once
PostedInv ==
  \A i \in 1..Len(posted) :
    /\ thread[posted[i].of] \in After
    /\ posted[i].sort = "delete" => thread[posted[i].of] # "deleteLater"
    /\ \A j \in 1..Len(posted) :
         posted[i].sort = "finished" /\ posted[j].of = posted[i].of /\ i # j
           => posted[j].sort = "delete" /\ i < j

\* only the thread the page points to has still to report, and then there are no results
ResultInv ==
  ~stale /\ where # "closed" =>
    \A c \in Unreported : crawler = c /\ objects = << >>

Inv == /\ TypeOK /\ ThreadInv /\ WaitInv /\ PostedInv
       /\ PageUsesLiveCrawler /\ UnwatchedIsStopped /\ ResultInv /\ ResultsOfOneCrawl

-----------------------------------------------------------------------------
LEMMA FreshIsNew ==
  ASSUME SomeLeft
  PROVE  Fresh \in Crawlers /\ object[Fresh] = "none"
BY DEF SomeLeft, Fresh

LEMMA Delivered ==
  ASSUME NEW S, NEW q \in Seq(S), q # << >>
  PROVE  /\ Len(q) > 0 /\ Head(q) = q[1] /\ Head(q) \in S
         /\ Tail(q) \in Seq(S) /\ Len(Tail(q)) = Len(q) - 1
         /\ \A i \in 1..Len(Tail(q)) : i + 1 \in 1..Len(q) /\ Tail(q)[i] = q[i + 1]
OBVIOUS

LEMMA Posting ==
  ASSUME NEW S, NEW q \in Seq(S), NEW e \in S
  PROVE  /\ Len(q) \in Nat /\ Append(q, e) \in Seq(S) /\ Len(Append(q, e)) = Len(q) + 1
         /\ Append(q, e)[Len(q) + 1] = e
         /\ \A i \in 1..Len(q) : Append(q, e)[i] = q[i]
OBVIOUS

Events == [sort : {"finished", "delete"}, of : Crawlers]

LEMMA PostedEvents ==
  ASSUME TypeOK
  PROVE  /\ posted \in Seq(Events) /\ Len(posted) \in Nat
         /\ \A i \in 1..Len(posted) :
              /\ posted[i] \in Events /\ posted[i].of \in Crawlers
              /\ posted[i].sort \in {"finished", "delete"}
              /\ posted[i].sort = "finished" => posted[i] = Event("finished", posted[i].of)
<1>1. posted \in Seq(Events)
  BY DEF TypeOK, Events
<1>2. Len(posted) \in Nat /\ \A i \in 1..Len(posted) : posted[i] \in Events
  BY <1>1
<1>3. ASSUME NEW e \in Events
      PROVE  /\ e.of \in Crawlers /\ e.sort \in {"finished", "delete"}
             /\ e.sort = "finished" => e = Event("finished", e.of)
  BY DEF Events, Event
<1>4. QED
  BY <1>1, <1>2, <1>3

LEMMA Initially == Init => Inv
<1> SUFFICES ASSUME Init PROVE Inv
  OBVIOUS
<1>1. TypeOK
  <2>1. objects \in Seq([of : Crawlers, whole : BOOLEAN])
    BY DEF Init
  <2>2. posted \in Seq([sort : {"finished", "delete"}, of : Crawlers])
    BY DEF Init
  <2>3. /\ wizard \in 0..MaxWizards
        /\ ui \in [Crawlers -> 0..MaxWizards] /\ left \in [Crawlers -> 0..MaxHosts]
    BY BoundAssumption DEF Init
  <2>4. QED
    BY <2>1, <2>2, <2>3 DEF Init, TypeOK
<1>2. ThreadInv /\ WaitInv /\ PostedInv
  BY DEF Init, ThreadInv, WaitInv, PostedInv
<1>3. PageUsesLiveCrawler /\ UnwatchedIsStopped
  BY DEF Init, PageUsesLiveCrawler, UnwatchedIsStopped, Crawling
<1>4. ResultInv /\ ResultsOfOneCrawl
  BY DEF Init, ResultInv, ResultsOfOneCrawl
<1>5. QED
  BY <1>1, <1>2, <1>3, <1>4 DEF Inv

-----------------------------------------------------------------------------
\* The handlers of the page that begin no crawl: threads, events and results stay, or go
\* with the page.
LEMMA PageSteps ==
  ASSUME Inv,
         OpenWizard \/ NextPage \/ BackToPage \/ CleanupPage \/ StopClicked \/ CloseWizard
           \/ InitializePageStops
  PROVE  Inv'
<1> USE DEF Inv
<1>1. CASE OpenWizard
  <2>1. TypeOK'
    <3>1. objects' \in Seq([of : Crawlers, whole : BOOLEAN])
      BY <1>1 DEF OpenWizard
    <3>2. wizard' \in 0..MaxWizards
      BY <1>1, BoundAssumption DEF OpenWizard, TypeOK
    <3>3. QED
      BY <1>1, <3>1, <3>2 DEF OpenWizard, TypeOK, threads
  <2>2. ThreadInv' /\ WaitInv' /\ PostedInv'
    BY <1>1 DEF OpenWizard, TypeOK, threads, ThreadInv, WaitInv, PostedInv
  <2>3. PageUsesLiveCrawler' /\ UnwatchedIsStopped'
    BY <1>1 DEF OpenWizard, threads, PageUsesLiveCrawler, UnwatchedIsStopped
  <2>4. Unreported' = {}
    BY <1>1 DEF OpenWizard, TypeOK, threads, ThreadInv, Unreported
  <2>5. ResultInv' /\ ResultsOfOneCrawl'
    BY <1>1, <2>4 DEF OpenWizard, ResultInv, ResultsOfOneCrawl
  <2>6. QED
    BY <2>1, <2>2, <2>3, <2>5
<1>2. CASE CloseWizard
  <2>1. TypeOK'
    <3>1. objects' \in Seq([of : Crawlers, whole : BOOLEAN])
      BY <1>2 DEF CloseWizard
    <3>2. stop_flag' \in [Crawlers -> BOOLEAN] /\ torn' \in [Crawlers -> BOOLEAN]
      BY <1>2 DEF CloseWizard, TypeOK, Torn
    <3>3. QED
      BY <1>2, <3>1, <3>2 DEF CloseWizard, TypeOK
  <2>2. ThreadInv' /\ WaitInv' /\ PostedInv'
    BY <1>2 DEF CloseWizard, ThreadInv, WaitInv, PostedInv
  <2>3. PageUsesLiveCrawler' /\ UnwatchedIsStopped'
    BY <1>2 DEF CloseWizard, TypeOK, PageUsesLiveCrawler, UnwatchedIsStopped, IsRunning
  <2>4. ResultInv' /\ ResultsOfOneCrawl'
    BY <1>2 DEF CloseWizard, ResultInv, ResultsOfOneCrawl
  <2>5. QED
    BY <2>1, <2>2, <2>3, <2>4
<1>3. CASE NextPage \/ BackToPage
  <2>1. TypeOK'
    BY <1>3 DEF NextPage, BackToPage, IsComplete, TypeOK, threads
  <2>2. ThreadInv' /\ WaitInv' /\ PostedInv'
    BY <1>3 DEF NextPage, BackToPage, threads, ThreadInv, WaitInv, PostedInv
  <2>3. PageUsesLiveCrawler' /\ UnwatchedIsStopped'
    BY <1>3, NoCrawlerAssumption DEF NextPage, BackToPage, threads, Busy, IsRunning,
       PageUsesLiveCrawler, UnwatchedIsStopped
  <2>4. ResultInv' /\ ResultsOfOneCrawl'
    BY <1>3 DEF NextPage, BackToPage, threads, ResultInv, ResultsOfOneCrawl, Unreported
  <2>5. QED
    BY <2>1, <2>2, <2>3, <2>4
<1>4. CASE CleanupPage \/ StopClicked \/ InitializePageStops
  <2>1. TypeOK'
    <3>1. stop_flag' \in [Crawlers -> BOOLEAN] /\ torn' \in [Crawlers -> BOOLEAN]
      BY <1>4 DEF CleanupPage, StopClicked, InitializePageStops, TypeOK, Torn
    <3>2. QED
      BY <1>4, <3>1 DEF CleanupPage, StopClicked, InitializePageStops, TypeOK, gui
  <2>2. ThreadInv' /\ WaitInv' /\ PostedInv'
    BY <1>4 DEF CleanupPage, StopClicked, InitializePageStops, gui, Busy,
       ThreadInv, WaitInv, PostedInv
  <2>3. PageUsesLiveCrawler' /\ UnwatchedIsStopped'
    BY <1>4 DEF CleanupPage, StopClicked, InitializePageStops, gui, TypeOK, IsRunning,
       PageUsesLiveCrawler, UnwatchedIsStopped
  <2>4. ResultInv' /\ ResultsOfOneCrawl'
    BY <1>4 DEF CleanupPage, StopClicked, InitializePageStops, gui,
       ResultInv, ResultsOfOneCrawl, Unreported
  <2>5. QED
    BY <2>1, <2>2, <2>3, <2>4
<1>5. QED
  BY <1>1, <1>2, <1>3, <1>4
-----------------------------------------------------------------------------
\* A crawl begins with a new thread.  If all earlier ones were reported it is the only
\* one that has still to report; if not, "stale" is set.
LEMMA BeginSteps ==
  ASSUME Inv, NEW lim \in Limits,
         InitializePage(Fresh, lim) \/ InitializePageWaited(Fresh, lim)
  PROVE  Inv'
<1> USE DEF Inv
<1>1. /\ SomeLeft /\ Fresh \in Crawlers /\ object[Fresh] = "none" /\ thread[Fresh] = "none"
  <2>1. SomeLeft
    BY DEF InitializePage, InitializePageWaited, Start
  <2>2. QED
    BY <2>1, FreshIsNew DEF ThreadInv
<1> DEFINE f == Fresh
<1> HIDE DEF f
<1>2. /\ f \in Crawlers /\ object[f] = "none" /\ thread[f] = "none"
      /\ InitializePage(f, lim) \/ InitializePageWaited(f, lim)
  BY <1>1 DEF f
<1>3. /\ crawler' = f /\ objects' = << >> /\ posted' = posted /\ wizard' = wizard
      /\ thread' = [thread EXCEPT ![f] = "begin"] /\ ui' = [ui EXCEPT ![f] = wizard]
      /\ left' = [left EXCEPT ![f] = MaxHosts] /\ stop_flag' = stop_flag
      /\ where \in {"before", "waiting"} /\ where' = "progress"
      /\ stale' = (stale \/ Unreported # {})
  BY <1>2 DEF InitializePage, InitializePageWaited, Start
<1>4. /\ object' \in [Crawlers -> {"none", "alive", "deleted"}] /\ object'[f] = "alive"
      /\ \A c \in Crawlers : object'[c] = "none" => object[c] = "none" /\ c # f
  <2>1. CASE InitializePage(f, lim)
    BY <1>2, <2>1 DEF InitializePage, TypeOK
  <2>2. CASE InitializePageWaited(f, lim)
    BY <1>2, <2>2 DEF InitializePageWaited, TypeOK
  <2>3. QED
    BY <1>2, <2>1, <2>2
<1>5. TypeOK'
  <2>1. limited' \in [Crawlers -> BOOLEAN]
    BY <1>2, LimitsAssumption DEF InitializePage, InitializePageWaited, Start, TypeOK
  <2>2. left' \in [Crawlers -> 0..MaxHosts] /\ ui' \in [Crawlers -> 0..MaxWizards]
    BY <1>2, <1>3, BoundAssumption DEF TypeOK
  <2>3. thread' \in [Crawlers -> {"none", "ended"} \cup Crawling \cup Exiting]
    BY <1>2, <1>3 DEF TypeOK, Crawling
  <2>4. torn' \in [Crawlers -> BOOLEAN]
    BY <1>2 DEF InitializePage, InitializePageWaited, Torn, TypeOK
  <2>5. objects' \in Seq([of : Crawlers, whole : BOOLEAN])
    BY <1>3
  <2>6. crashed' \in BOOLEAN /\ stale' \in BOOLEAN /\ nextButton' \in BOOLEAN
    BY <1>2, <1>3 DEF InitializePage, InitializePageWaited, Start, TypeOK
  <2>7. QED
    BY <1>2, <1>3, <1>4, <2>1, <2>2, <2>3, <2>4, <2>5, <2>6 DEF TypeOK
<1>6. ThreadInv' /\ WaitInv' /\ PageUsesLiveCrawler'
  <2>1. ThreadInv'
    BY <1>2, <1>3, <1>4 DEF TypeOK, ThreadInv
  <2>2. QED
    BY <1>2, <1>3, <1>4, <2>1 DEF WaitInv, PageUsesLiveCrawler
<1>7. PostedInv'
  <2>1. \A i \in 1..Len(posted) : posted[i].of # f
    BY <1>2 DEF PostedInv, After
  <2>2. \A i \in 1..Len(posted) : posted[i].of \in Crawlers
    BY PostedEvents
  <2>3. \A i \in 1..Len(posted) : thread'[posted[i].of] = thread[posted[i].of]
    BY <1>2, <1>3, <2>1, <2>2 DEF TypeOK
  <2>4. QED
    BY <1>3, <2>3 DEF PostedInv
<1>8. UnwatchedIsStopped'
  BY <1>2, <1>3 DEF UnwatchedIsStopped, TypeOK
<1>9. ResultInv'
  <2>1. Unreported' \subseteq Unreported \cup {f}
    BY <1>2, <1>3 DEF Unreported, TypeOK
  <2>2. QED
    BY <1>3, <2>1 DEF ResultInv
<1>10. ResultsOfOneCrawl'
  BY <1>3 DEF ResultsOfOneCrawl
<1>11. QED
  BY <1>5, <1>6, <1>7, <1>8, <1>9, <1>10

-----------------------------------------------------------------------------
\* What is delivered first is the end of a thread before its deletion.
LEMMA DeliveredHead ==
  ASSUME Inv, NEW sort, Deliverable(sort), posted' = Tail(posted)
  PROVE  /\ Len(posted) > 0 /\ Head(posted) = posted[1]
         /\ Head(posted).of \in Crawlers /\ Head(posted).sort = sort
         /\ Len(posted') = Len(posted) - 1
         /\ \A i \in 1..Len(posted') : i + 1 \in 1..Len(posted) /\ posted'[i] = posted[i + 1]
         /\ posted' \in Seq([sort : {"finished", "delete"}, of : Crawlers])
<1>1. posted \in Seq(Events) /\ posted # << >> /\ Head(posted).sort = sort
  BY PostedEvents DEF Inv, Deliverable
<1>2. /\ Len(posted) > 0 /\ Head(posted) = posted[1] /\ Head(posted) \in Events
      /\ posted' \in Seq(Events) /\ Len(posted') = Len(posted) - 1
      /\ \A i \in 1..Len(posted') : i + 1 \in 1..Len(posted) /\ posted'[i] = posted[i + 1]
  BY <1>1, Delivered
<1>3. QED
  BY <1>1, <1>2 DEF Events

\* crawlerFinished: what is reported is the thread's the page points to, which is on its
\* way out, and it is reported once.
LEMMA FinishedStep ==
  ASSUME Inv, CrawlerFinished
  PROVE  Inv'
<1> USE DEF Inv
<1> DEFINE h == Head(posted).of
<1>1. Deliverable("finished") /\ posted' = Tail(posted)
  BY DEF CrawlerFinished
<1>2. /\ Len(posted) > 0 /\ Head(posted) = posted[1] /\ h \in Crawlers
      /\ posted[1].sort = "finished"
      /\ Len(posted') = Len(posted) - 1
      /\ \A i \in 1..Len(posted') : i + 1 \in 1..Len(posted) /\ posted'[i] = posted[i + 1]
      /\ posted' \in Seq([sort : {"finished", "delete"}, of : Crawlers])
  BY <1>1, DeliveredHead
<1>3. /\ UNCHANGED <<wizard, where, crawler, threads, stale>> /\ where # "waiting"
  BY DEF CrawlerFinished, Deliverable
<1>4. thread[h] \in After
  BY <1>2 DEF PostedInv, TypeOK
<1>5. \/ UNCHANGED objects /\ (PageGone(h) \/ crawler = NoCrawler)
      \/ /\ ~PageGone(h) /\ crawler # NoCrawler
         /\ objects' = Append(objects, [of |-> crawler, whole |-> thread[crawler] \notin Crawling])
  BY DEF CrawlerFinished
<1>6. TypeOK'
  <2>1. objects' \in Seq([of : Crawlers, whole : BOOLEAN])
    <3>1. objects \in Seq([of : Crawlers, whole : BOOLEAN])
      BY DEF TypeOK
    <3>2. CASE UNCHANGED objects
      BY <3>1, <3>2
    <3>3. CASE objects' = Append(objects, [of |-> crawler, whole |-> thread[crawler] \notin Crawling])
              /\ crawler # NoCrawler
      <4> DEFINE r == [of |-> crawler, whole |-> thread[crawler] \notin Crawling]
      <4>1. r \in [of : Crawlers, whole : BOOLEAN]
        BY <3>3 DEF TypeOK
      <4>2. QED
        BY <3>1, <3>3, <4>1
    <3>4. QED
      BY <1>5, <3>2, <3>3
  <2>2. nextButton' \in BOOLEAN /\ crashed' \in BOOLEAN
    BY DEF CrawlerFinished, IsComplete, MayCrash, TypeOK
  <2>3. QED
    BY <1>2, <1>3, <2>1, <2>2 DEF TypeOK, threads
<1>7. ThreadInv' /\ WaitInv' /\ PageUsesLiveCrawler' /\ UnwatchedIsStopped'
  BY <1>3 DEF threads, ThreadInv, WaitInv, PageUsesLiveCrawler, UnwatchedIsStopped
<1>8. PostedInv'
  <2>1. UNCHANGED thread
    BY <1>3 DEF threads
  <2>2. QED
    BY <1>2, <2>1 DEF PostedInv
<1>9. Unreported' \subseteq Unreported
  BY <1>2, <1>3 DEF threads, Unreported
<1>10. h \notin Unreported'
  <2>1. thread[h] \notin Crawling \cup {"finished"}
    BY <1>4 DEF After, Crawling
  <2>2. \A i \in 1..Len(posted') : posted'[i] # Event("finished", h)
    BY <1>2 DEF PostedInv, Event
  <2>3. QED
    BY <1>3, <2>1, <2>2 DEF threads, Unreported
<1>11. ~PageGone(h) => h \in Unreported
  <2>1. posted[1] = Event("finished", h)
    BY <1>2, PostedEvents
  <2>2. QED
    BY <1>2, <2>1 DEF PageGone, Unreported
<1>12. ResultInv'
  BY <1>3, <1>5, <1>9, <1>10, <1>11 DEF ResultInv, PageGone
<1>13. ResultsOfOneCrawl'
  <2>1. CASE UNCHANGED objects
    BY <1>3, <2>1 DEF ResultsOfOneCrawl
  <2>2. CASE ~stale /\ ~PageGone(h)
             /\ objects' = Append(objects, [of |-> crawler, whole |-> thread[crawler] \notin Crawling])
    <3>1. crawler = h /\ objects = << >>
      BY <1>11, <2>2 DEF ResultInv, PageGone
    <3>2. objects' = <<[of |-> h, whole |-> TRUE]>>
      <4>1. thread[h] \notin Crawling
        BY <1>4 DEF After, Crawling
      <4> DEFINE r == [of |-> h, whole |-> TRUE]
      <4>2. [of |-> crawler, whole |-> thread[crawler] \notin Crawling] = r
        BY <3>1, <4>1
      <4>3. Append(<< >>, r) = <<r>>
        OBVIOUS
      <4>4. QED
        BY <2>2, <3>1, <4>2, <4>3
    <3>3. QED
      BY <1>3, <3>1, <3>2 DEF ResultsOfOneCrawl
  <2>3. QED
    BY <1>3, <1>5, <2>1, <2>2 DEF ResultsOfOneCrawl
<1>14. QED
  BY <1>6, <1>7, <1>8, <1>12, <1>13

\* The deferred deletion takes the page's pointer with the object.
LEMMA DestroyedStep ==
  ASSUME Inv, Destroyed
  PROVE  Inv'
<1> USE DEF Inv
<1> DEFINE h == Head(posted).of
<1>1. Deliverable("delete") /\ posted' = Tail(posted)
  BY DEF Destroyed
<1>2. /\ Len(posted) > 0 /\ Head(posted) = posted[1] /\ h \in Crawlers
      /\ posted[1].sort = "delete"
      /\ Len(posted') = Len(posted) - 1
      /\ \A i \in 1..Len(posted') : i + 1 \in 1..Len(posted) /\ posted'[i] = posted[i + 1]
      /\ posted' \in Seq([sort : {"finished", "delete"}, of : Crawlers])
  BY <1>1, DeliveredHead
<1>3. /\ UNCHANGED <<wizard, where, objects, nextButton, thread, stop_flag, ui, limited, left,
                     torn, stale>>
      /\ where # "waiting"
      /\ object' = [object EXCEPT ![h] = "deleted"]
      /\ crawler' = IF crawler = h THEN NoCrawler ELSE crawler
  BY DEF Destroyed, Deliverable
<1>4. thread[h] \in After
  BY <1>2 DEF PostedInv, TypeOK
<1>5. TypeOK'
  <2>1. crashed' \in BOOLEAN
    BY DEF Destroyed
  <2>2. QED
    BY <1>2, <1>3, <2>1 DEF TypeOK
<1>6. ThreadInv' /\ WaitInv' /\ PageUsesLiveCrawler'
  BY <1>2, <1>3 DEF TypeOK, ThreadInv, WaitInv, PageUsesLiveCrawler
<1>7. PostedInv'
  <2>1. ASSUME NEW i \in 1..Len(posted')
        PROVE  /\ thread[posted'[i].of] \in After
               /\ posted'[i].sort = "delete" => thread[posted'[i].of] # "deleteLater"
    BY <1>2, <2>1 DEF PostedInv
  <2>2. ASSUME NEW i \in 1..Len(posted'), NEW j \in 1..Len(posted'),
               posted'[i].sort = "finished", posted'[j].of = posted'[i].of, i # j
        PROVE  posted'[j].sort = "delete" /\ i < j
    <3>1. /\ i + 1 \in 1..Len(posted) /\ posted'[i] = posted[i + 1]
          /\ j + 1 \in 1..Len(posted) /\ posted'[j] = posted[j + 1] /\ i + 1 # j + 1
      BY <1>2, <2>2
    <3>2. posted[j + 1].sort = "delete" /\ i + 1 < j + 1
      BY <2>2, <3>1 DEF PostedInv
    <3>3. QED
      BY <2>2, <3>1, <3>2
  <2>3. thread' = thread
    BY <1>3
  <2>4. QED
    BY <2>1, <2>2, <2>3 DEF PostedInv
<1>8. UnwatchedIsStopped'
  BY <1>2, <1>3, <1>4 DEF UnwatchedIsStopped, After, Crawling
<1>9. Unreported' \subseteq Unreported \ {h}
  <2>1. Unreported' \subseteq Unreported
    BY <1>2, <1>3 DEF Unreported
  <2>2. thread[h] \notin Crawling \cup {"finished"}
    BY <1>4 DEF After, Crawling
  <2>3. \A i \in 1..Len(posted') : posted'[i] # Event("finished", h)
    BY <1>2 DEF PostedInv, Event
  <2>4. QED
    BY <1>3, <2>1, <2>2, <2>3 DEF Unreported
<1>10. ResultInv' /\ ResultsOfOneCrawl'
  BY <1>3, <1>9 DEF ResultInv, ResultsOfOneCrawl
<1>11. QED
  BY <1>5, <1>6, <1>7, <1>8, <1>10

-----------------------------------------------------------------------------
\* A thread that posts nothing: it goes on, and has still to report if it had before.
LEMMA SilentThreadSteps ==
  ASSUME Inv, NEW c \in Crawlers,
         ConnectLogger(c) \/ CheckStop(c) \/ Probe(c) \/ Return(c)
  PROVE  Inv'
<1> USE DEF Inv
<1>1. /\ UNCHANGED <<gui, object, stop_flag, ui, limited, posted, stale>>
      /\ \E p \in {"ended", "finished"} \cup Crawling :
           /\ thread' = [thread EXCEPT ![c] = p]
           /\ p = "ended" <=> thread[c] = "returning"
           /\ p # "ended" => thread[c] \in Crawling
           /\ p = "probe" => left'[c] > 0
  BY BoundAssumption DEF ConnectLogger, CheckStop, Probe, Return, At, To, Crawling, TypeOK
<1>2. /\ left' \in [Crawlers -> 0..MaxHosts] /\ torn' \in [Crawlers -> BOOLEAN]
      /\ crashed' \in BOOLEAN
      /\ \A d \in Crawlers : d # c => left'[d] = left[d]
  <2>1. CASE Probe(c)
    <3>1. left[c] > 0 /\ left[c] \in 0..MaxHosts
      BY <2>1 DEF Probe, At, ThreadInv, TypeOK
    <3>2. left[c] - 1 \in 0..MaxHosts
      BY <3>1, BoundAssumption
    <3>3. left' = [left EXCEPT ![c] = left[c] - 1] /\ torn' = [torn EXCEPT ![c] = FALSE]
      BY <2>1 DEF Probe
    <3>4. left' \in [Crawlers -> 0..MaxHosts] /\ torn' \in [Crawlers -> BOOLEAN]
      BY <3>2, <3>3 DEF TypeOK
    <3>5. crashed' \in BOOLEAN
      BY <2>1 DEF Probe, MayCrash
    <3>6. QED
      BY <3>3, <3>4, <3>5 DEF TypeOK
  <2>2. CASE ConnectLogger(c) \/ CheckStop(c) \/ Return(c)
    BY <2>2 DEF ConnectLogger, CheckStop, Return, MayCrash, TypeOK
  <2>3. QED
    BY <2>1, <2>2
<1>3. PICK p \in {"ended", "finished"} \cup Crawling :
           /\ thread' = [thread EXCEPT ![c] = p]
           /\ p = "ended" <=> thread[c] = "returning"
           /\ p # "ended" => thread[c] \in Crawling
           /\ p = "probe" => left'[c] > 0
  BY <1>1
<1>4. TypeOK'
  <2>1. thread' \in [Crawlers -> {"none", "ended"} \cup Crawling \cup Exiting]
    BY <1>3 DEF TypeOK, Crawling, Exiting
  <2>2. QED
    BY <1>1, <1>2, <2>1 DEF TypeOK, gui
<1>5. ThreadInv'
  BY <1>1, <1>2, <1>3 DEF TypeOK, ThreadInv, gui, Crawling
<1>6. WaitInv' /\ PageUsesLiveCrawler' /\ UnwatchedIsStopped'
  BY <1>1, <1>3 DEF TypeOK, WaitInv, PageUsesLiveCrawler, UnwatchedIsStopped, gui, Crawling
<1>7. PostedInv'
  <2>1. \A d \in Crawlers : thread[d] \in After => thread'[d] \in After
                             /\ (thread[d] # "deleteLater" => thread'[d] # "deleteLater")
    BY <1>3 DEF TypeOK, After, Crawling
  <2>2. QED
    BY <1>1, <2>1 DEF TypeOK, PostedInv
<1>8. Unreported' \subseteq Unreported
  BY <1>1, <1>3 DEF TypeOK, Unreported, gui, Crawling
<1>9. ResultInv' /\ ResultsOfOneCrawl'
  BY <1>1, <1>8 DEF ResultInv, ResultsOfOneCrawl, gui
<1>10. QED
  BY <1>4, <1>5, <1>6, <1>7, <1>9

\* A thread on its way out posts its end, then its deletion.
LEMMA PostingThreadSteps ==
  ASSUME Inv, NEW c \in Crawlers, EmitFinished(c) \/ DeleteLater(c)
  PROVE  Inv'
<1> USE DEF Inv
<1> DEFINE sort == IF thread[c] = "finished" THEN "finished" ELSE "delete"
           p == IF thread[c] = "finished" THEN "deleteLater" ELSE "returning"
           e == [sort |-> sort, of |-> c]
<1>1. /\ UNCHANGED <<gui, object, stop_flag, ui, limited, left, torn, crashed, stale>>
      /\ thread[c] \in {"finished", "deleteLater"} /\ thread' = [thread EXCEPT ![c] = p]
      /\ posted' = posted \/ posted' = Append(posted, e)
  BY DEF EmitFinished, DeleteLater, At, To, Event
<1>2. /\ e \in [sort : {"finished", "delete"}, of : Crawlers]
      /\ e.sort = sort /\ e.of = c
  OBVIOUS
<1>3. posted' \in Seq([sort : {"finished", "delete"}, of : Crawlers])
  <2>1. Append(posted, e) \in Seq(Events)
    BY <1>2, PostedEvents, Posting DEF Events
  <2>2. QED
    BY <1>1, <2>1, PostedEvents DEF Events
<1>4. TypeOK'
  <2>1. thread' \in [Crawlers -> {"none", "ended"} \cup Crawling \cup Exiting]
    BY <1>1 DEF TypeOK, Exiting
  <2>2. QED
    BY <1>1, <1>3, <2>1 DEF TypeOK, gui
<1>5. ThreadInv' /\ WaitInv' /\ PageUsesLiveCrawler' /\ UnwatchedIsStopped'
  BY <1>1 DEF TypeOK, ThreadInv, WaitInv, PageUsesLiveCrawler, UnwatchedIsStopped, gui, Crawling
<1>6. \A i \in 1..Len(posted) :
        posted[i].of = c => thread[c] = "deleteLater" /\ posted[i].sort = "finished"
  BY <1>1, PostedEvents DEF PostedInv, After
<1>7. PostedInv'
  <2>1. \A d \in Crawlers : thread[d] \in After => thread'[d] \in After
                             /\ (thread[d] # "deleteLater" => thread'[d] # "deleteLater")
    BY <1>1 DEF TypeOK, After
  <2>2. thread'[c] \in After /\ (sort = "delete" => thread'[c] # "deleteLater")
    BY <1>1 DEF TypeOK, After
  <2>3. CASE posted' = posted
    BY PostedEvents, <2>1, <2>3 DEF PostedInv
  <2>4. CASE posted' = Append(posted, e)
    <3>1. /\ Len(posted') = Len(posted) + 1 /\ posted'[Len(posted) + 1] = e
          /\ \A i \in 1..Len(posted) : posted'[i] = posted[i]
          /\ Len(posted) \in Nat
      BY <1>2, <2>4, PostedEvents, Posting DEF Events
    <3>2. ASSUME NEW i \in 1..Len(posted')
          PROVE  /\ thread'[posted'[i].of] \in After
                 /\ posted'[i].sort = "delete" => thread'[posted'[i].of] # "deleteLater"
      <4>1. CASE i = Len(posted) + 1
        BY <1>2, <2>2, <3>1, <4>1
      <4>2. CASE i # Len(posted) + 1
        <5>1. i \in 1..Len(posted) /\ posted'[i] = posted[i]
          BY <3>1, <4>2
        <5>2. QED
          BY <2>1, <5>1, PostedEvents DEF PostedInv
      <4>3. QED
        BY <4>1, <4>2
    <3>3. ASSUME NEW i \in 1..Len(posted'), NEW j \in 1..Len(posted'),
                 posted'[i].sort = "finished", posted'[j].of = posted'[i].of, i # j
          PROVE  posted'[j].sort = "delete" /\ i < j
      <4>1. CASE i = Len(posted) + 1
        BY <1>1, <1>2, <1>6, <3>1, <3>3, <4>1
      <4>2. CASE i # Len(posted) + 1 /\ j = Len(posted) + 1
        BY <1>1, <1>2, <1>6, <3>1, <3>3, <4>2
      <4>3. CASE i # Len(posted) + 1 /\ j # Len(posted) + 1
        BY <3>1, <3>3, <4>3 DEF PostedInv
      <4>4. QED
        BY <4>1, <4>2, <4>3
    <3>4. QED
      BY <3>2, <3>3 DEF PostedInv
  <2>5. QED
    BY <1>1, <2>3, <2>4
<1>8. Unreported' \subseteq Unreported
  <2>1. ASSUME NEW d \in Crawlers, Event("finished", d) \in {posted'[i] : i \in 1..Len(posted')}
        PROVE  \/ Event("finished", d) \in {posted[i] : i \in 1..Len(posted)}
               \/ d = c /\ thread[c] = "finished"
    <3>1. PICK i \in 1..Len(posted') : posted'[i] = Event("finished", d)
      BY <2>1
    <3>2. CASE posted' = posted
      BY <3>1, <3>2
    <3>3. CASE posted' = Append(posted, e)
      <4>1. /\ Len(posted') = Len(posted) + 1 /\ posted'[Len(posted) + 1] = e
            /\ \A k \in 1..Len(posted) : posted'[k] = posted[k]
            /\ Len(posted) \in Nat
        BY <1>2, <3>3, PostedEvents, Posting DEF Events
      <4>2. CASE i = Len(posted) + 1
        BY <1>2, <3>1, <4>1, <4>2 DEF Event
      <4>3. CASE i # Len(posted) + 1
        BY <3>1, <4>1, <4>3
      <4>4. QED
        BY <4>2, <4>3
    <3>4. QED
      BY <1>1, <3>2, <3>3
  <2>2. \A d \in Crawlers : thread'[d] \in Crawling \cup {"finished"}
                             => thread[d] \in Crawling \cup {"finished"}
    BY <1>1 DEF TypeOK, Crawling
  <2>3. QED
    BY <1>1, <2>1, <2>2 DEF Unreported, gui
<1>9. ResultInv' /\ ResultsOfOneCrawl'
  BY <1>1, <1>8 DEF ResultInv, ResultsOfOneCrawl, gui
<1>10. QED
  BY <1>4, <1>5, <1>7, <1>9

-----------------------------------------------------------------------------
LEMMA Inductive == Inv /\ [Next]_vars => Inv'
<1> SUFFICES ASSUME Inv, [Next]_vars PROVE Inv'
  OBVIOUS
<1>1. CASE OpenWizard \/ NextPage \/ BackToPage \/ CleanupPage \/ StopClicked \/ CloseWizard
           \/ InitializePageStops
  BY <1>1, PageSteps
<1>2. CASE \E lim \in Limits : InitializePage(Fresh, lim)
  BY <1>2, BeginSteps
<1>3. CASE Waited
  BY <1>3, BeginSteps DEF Waited
<1>4. CASE EventLoop
  BY <1>4, FinishedStep, DestroyedStep DEF EventLoop
<1>5. CASE \E c \in Crawlers : Run(c)
  BY <1>5, SilentThreadSteps, PostingThreadSteps DEF Run
<1>6. CASE UNCHANGED vars
  <2>1. TypeOK' /\ ThreadInv' /\ WaitInv' /\ PostedInv'
    BY <1>6 DEF vars, gui, threads, Inv, TypeOK, ThreadInv, WaitInv, PostedInv
  <2>2. PageUsesLiveCrawler' /\ UnwatchedIsStopped' /\ ResultInv' /\ ResultsOfOneCrawl'
    BY <1>6 DEF vars, gui, threads, Inv, PageUsesLiveCrawler, UnwatchedIsStopped, ResultInv,
       ResultsOfOneCrawl, Unreported
  <2>3. QED
    BY <2>1, <2>2 DEF Inv
<1>7. QED
  BY <1>1, <1>2, <1>3, <1>4, <1>5, <1>6 DEF Next

LEMMA Always == Spec => []Inv
  BY Initially, Inductive, PTL DEF Spec

\* Types, and a crawl takes no more hosts than its queue has.
THEOREM TypeCorrect == Spec => []TypeOK
<1>1. Inv => TypeOK
  BY DEF Inv
<1>2. QED
  BY <1>1, Always, PTL

\* The progress page never asks a thread object that deleted itself.
THEOREM PointerLive == Spec => []PageUsesLiveCrawler
<1>1. Inv => PageUsesLiveCrawler
  BY DEF Inv
<1>2. QED
  BY <1>1, Always, PTL

\* Back, Next and closing the wizard never leave a thread crawling that was not told to stop.
THEOREM CrawlWatched == Spec => []UnwatchedIsStopped
<1>1. Inv => UnwatchedIsStopped
  BY DEF Inv
<1>2. QED
  BY <1>1, Always, PTL

\* If each crawl was reported before the next began, the results are those of one that ended.
THEOREM ResultsSound == Spec => []ResultsOfOneCrawl
<1>1. Inv => ResultsOfOneCrawl
  BY DEF Inv
<1>2. QED
  BY <1>1, Always, PTL
=============================================================================
