--------------------------- MODULE CrawlerWizard ---------------------------
(***************************************************************************)
(* The progress page of the SNMP network discovery wizard (ND_ProgressPage *)
(* of SNMPNetworkDiscoveryWizard) and the threads that crawl the network   *)
(* for it (SNMPCrawlerThread, SNMPCrawler::run_impl).                      *)
(*                                                                         *)
(* The GUI thread runs the page's handlers, each one action.  A thread is  *)
(* a QThread that tells the page by a posted signal that it has finished   *)
(* and then asks the GUI's event loop to delete it.  "posted" is the part  *)
(* of the event queue that matters: what the threads post arrives in order,*)
(* the user's clicks at any time in between.  What was posted to an object *)
(* that is gone stays in the queue here and has no effect.                 *)
(*                                                                         *)
(* Using what another thread changes or what was freed is undefined: such  *)
(* a step may crash the program or go on.                                  *)
(***************************************************************************)
EXTENDS Naturals, Sequences

CONSTANTS
  Crawlers,     \* the crawler threads of one run of the program
  NoCrawler,    \* the NULL pointer
  Limits,       \* whether the user names a network to stay in: a subset of BOOLEAN
  MaxWizards,   \* bound: how often the wizard is opened
  MaxHosts      \* bound: hosts one crawl visits

ASSUME NoCrawlerAssumption == NoCrawler \notin Crawlers
ASSUME LimitsAssumption == Limits \subseteq BOOLEAN
ASSUME BoundAssumption == MaxWizards \in Nat /\ MaxHosts \in Nat

VARIABLES
  wizard,       \* how often it was opened; the page of that time is named by it
  where,        \* the page that is shown, relative to the progress page
  crawler,      \* the page's pointer to its thread
  objects,      \* objects of the wizard: whose results crawlerFinished put there
  nextButton,   \* Next is enabled on the progress page
  thread,       \* where each thread is in SNMPCrawlerThread::run
  object,       \* the SNMPCrawlerThread objects
  stop_flag,
  ui,           \* the page a thread was made for
  limited,      \* limit_to_networks points to the page's include_networks
  left,         \* hosts in the queue of the crawl
  torn,         \* the list was changed or freed while the thread reads it
  posted,       \* events for the GUI thread
  crashed,
  stale         \* history: a crawl was begun before the last was reported

gui == <<wizard, where, crawler, objects, nextButton>>
threads == <<thread, object, stop_flag, ui, limited, left, torn>>
vars == <<gui, threads, posted, crashed, stale>>

Crawling == {"begin", "crawl", "probe"}
Exiting == {"finished", "deleteLater", "returning"}

\* QThread::isRunning: from start() to the return of run()
IsRunning(c) == thread[c] \in Crawling \cup Exiting
Busy == crawler # NoCrawler /\ IsRunning(crawler)

\* the page a thread was made for is destroyed
PageGone(c) == where = "closed" \/ ui[c] # wizard

Event(sort, c) == [sort |-> sort, of |-> c]

\* an undefined step may end the program
MayCrash(undefined) == crashed' \in IF undefined THEN BOOLEAN ELSE {FALSE}

Init ==
  /\ wizard = 0 /\ where = "closed" /\ crawler = NoCrawler /\ objects = << >>
  /\ nextButton = FALSE
  /\ thread = [c \in Crawlers |-> "none"] /\ object = [c \in Crawlers |-> "none"]
  /\ stop_flag = [c \in Crawlers |-> FALSE] /\ ui = [c \in Crawlers |-> 0]
  /\ limited = [c \in Crawlers |-> FALSE] /\ left = [c \in Crawlers |-> 0]
  /\ torn = [c \in Crawlers |-> FALSE]
  /\ posted = << >> /\ crashed = FALSE /\ stale = FALSE

-----------------------------------------------------------------------------
(* The page.                                                                *)

OpenWizard ==
  /\ ~crashed /\ where = "closed" /\ wizard < MaxWizards
  /\ wizard' = wizard + 1 /\ where' = "before"
  /\ crawler' = NoCrawler /\ objects' = << >> /\ nextButton' = FALSE
  /\ stale' = FALSE
  /\ UNCHANGED <<threads, posted, crashed>>

\* include_networks is cleared under the threads that read it just now
Torn(cs) == torn' = [c \in Crawlers |-> torn[c] \/ (c \in cs /\ limited[c])]
Readers == {c \in Crawlers : ui[c] = wizard /\ thread[c] = "probe"}

Unreported == {c \in Crawlers : /\ ui[c] = wizard
                                /\ \/ thread[c] \in Crawling \cup {"finished"}
                                   \/ Event("finished", c) \in {posted[i] : i \in 1..Len(posted)}}

(* The new SNMPCrawlerThread at the end of initializePage, and what         *)
(* QWizard::switchToPage does after it.                                     *)
SomeLeft == \E c \in Crawlers : object[c] = "none"
Fresh == CHOOSE c \in Crawlers : object[c] = "none"

Start(c, lim) ==
  /\ SomeLeft
  /\ crawler' = c
  /\ thread' = [thread EXCEPT ![c] = "begin"]
  /\ ui' = [ui EXCEPT ![c] = wizard]
  /\ limited' = [limited EXCEPT ![c] = lim]
  /\ left' = [left EXCEPT ![c] = MaxHosts]
  /\ where' = "progress" /\ nextButton' = FALSE
  /\ stale' = (stale \/ Unreported # {})

\* mutant: what an earlier crawl found is kept
InitializePageKeeps(c, lim) ==
  /\ ~crashed /\ where = "before" /\ ~Busy
  /\ Start(c, lim)
  /\ object' = [object EXCEPT ![c] = "alive"]
  /\ Torn(Readers)
  /\ UNCHANGED <<wizard, stop_flag, objects, posted, crashed>>

\* initializePage: no crawl, or one whose thread has ended
InitializePage(c, lim) ==
  /\ ~crashed /\ where = "before" /\ ~Busy
  /\ Start(c, lim)
  /\ object' = [object EXCEPT ![c] = "alive"]
  /\ objects' = << >>
  /\ Torn(Readers)
  /\ UNCHANGED <<wizard, stop_flag, posted, crashed>>

\* initializePage while the last crawl goes on: the list is cleared, the thread is
\* told to stop and waited for; the event loop does not run.
InitializePageStops ==
  /\ ~crashed /\ where = "before" /\ Busy
  /\ SomeLeft
  /\ where' = "waiting"
  /\ stop_flag' = [stop_flag EXCEPT ![crawler] = TRUE]
  /\ Torn(Readers)
  /\ UNCHANGED <<wizard, crawler, objects, nextButton, thread, object, ui, limited, left,
                 posted, crashed, stale>>

\* ... and when it has ended it is deleted, which crawlerDestroyed hears of at once.
InitializePageWaited(c, lim) ==
  /\ ~crashed /\ where = "waiting" /\ ~IsRunning(crawler)
  /\ Start(c, lim)
  /\ object' = [object EXCEPT ![crawler] = "deleted", ![c] = "alive"]
  /\ objects' = << >>
  /\ UNCHANGED <<wizard, stop_flag, torn, posted, crashed>>

\* the button as QWizard sets it: isComplete of the page
IsComplete(c) == c = NoCrawler \/ ~IsRunning(c)

\* Next, on a page before the progress page or on this one
NextPage ==
  /\ ~crashed /\ where = "progress" /\ nextButton
  /\ ~Busy /\ objects # << >>          \* validatePage
  /\ where' = "after"
  /\ UNCHANGED <<wizard, crawler, objects, nextButton, threads, posted, crashed, stale>>

\* Back from a page after it: the page is shown again, not initialised
BackToPage ==
  /\ ~crashed /\ where = "after"
  /\ where' = "progress" /\ nextButton' = IsComplete(crawler)
  /\ UNCHANGED <<wizard, crawler, objects, threads, posted, crashed, stale>>

\* mutant: Back leaves the crawl running
CleanupPageOnly ==
  /\ ~crashed /\ where = "progress"
  /\ where' = "before"
  /\ Torn(Readers)
  /\ UNCHANGED <<wizard, crawler, objects, nextButton, thread, object, stop_flag, ui, limited,
                 left, posted, crashed, stale>>

\* Back: cleanupPage.  Its disconnect() names the page as the sender, so that the
\* connections from the thread stay.
CleanupPage ==
  /\ ~crashed /\ where = "progress"
  /\ where' = "before"
  /\ stop_flag' = [c \in Crawlers |-> stop_flag[c] \/ (c = crawler /\ IsRunning(c))]
  /\ Torn(Readers)
  /\ UNCHANGED <<wizard, crawler, objects, nextButton, thread, object, ui, limited, left,
                 posted, crashed, stale>>

StopClicked ==
  /\ ~crashed /\ where = "progress" /\ Busy
  /\ stop_flag' = [stop_flag EXCEPT ![crawler] = TRUE]
  /\ UNCHANGED <<gui, thread, object, ui, limited, left, torn, posted, crashed, stale>>

\* The wizard is on the stack of toolsSNMPDiscovery: closing it, in whatever way,
\* destroys the page with its list.
CloseWizard ==
  /\ ~crashed /\ where \in {"before", "progress", "after"}
  /\ where' = "closed" /\ crawler' = NoCrawler /\ objects' = << >> /\ nextButton' = FALSE
  /\ stop_flag' = [c \in Crawlers |-> stop_flag[c] \/ (c = crawler /\ IsRunning(c))]
  /\ Torn(Readers)
  /\ stale' = FALSE
  /\ UNCHANGED <<wizard, thread, object, ui, limited, left, posted, crashed>>

-----------------------------------------------------------------------------
(* The event loop of the GUI thread, which stands still while the page waits.*)

Deliverable(sort) == ~crashed /\ where # "waiting" /\ posted # << >> /\ Head(posted).sort = sort

\* crawlerFinished: the results are those of whatever crawler points to by then
CrawlerFinished ==
  /\ Deliverable("finished")
  /\ posted' = Tail(posted)
  /\ IF PageGone(Head(posted).of) \/ crawler = NoCrawler
     THEN UNCHANGED <<objects, nextButton, crashed>>
     ELSE LET whole == thread[crawler] \notin Crawling
          IN  /\ objects' = Append(objects, [of |-> crawler, whole |-> whole])
              /\ nextButton' = IsComplete(crawler)
              /\ MayCrash(~whole)
  /\ UNCHANGED <<wizard, where, crawler, threads, stale>>

\* mutant: crawlerDestroyed is not connected
DestroyedUnheard ==
  /\ Deliverable("delete")
  /\ LET c == Head(posted).of
     IN  /\ crashed' = (object[c] = "alive" /\ IsRunning(c))
         /\ object' = [object EXCEPT ![c] = "deleted"]
  /\ posted' = Tail(posted)
  /\ UNCHANGED <<gui, thread, stop_flag, ui, limited, left, torn, stale>>

\* The deferred deletion, with crawlerDestroyed.  ~QThread ends the program if the
\* thread has not returned from run().
Destroyed ==
  /\ Deliverable("delete")
  /\ LET c == Head(posted).of
     IN  /\ crashed' = (object[c] = "alive" /\ IsRunning(c))
         /\ object' = [object EXCEPT ![c] = "deleted"]
         /\ crawler' = IF crawler = c THEN NoCrawler ELSE crawler
  /\ posted' = Tail(posted)
  /\ UNCHANGED <<wizard, where, objects, nextButton, thread, stop_flag, ui, limited, left,
                 torn, stale>>

-----------------------------------------------------------------------------
(* A thread: SNMPCrawlerThread::run.                                        *)

At(c, p) == ~crashed /\ thread[c] = p
To(c, p) == thread' = [thread EXCEPT ![c] = p]

\* run() connects its logger to the page
ConnectLogger(c) ==
  /\ At(c, "begin") /\ To(c, "crawl")
  /\ MayCrash(PageGone(c))
  /\ UNCHANGED <<gui, object, stop_flag, ui, limited, left, torn, posted, stale>>

\* mutant: the end of the queue of hosts is not looked for
CheckStopOnly(c) ==
  /\ At(c, "crawl")
  /\ To(c, IF stop_flag[c] THEN "finished" ELSE "probe")
  /\ UNCHANGED <<gui, object, stop_flag, ui, limited, left, torn, posted, crashed, stale>>

\* the head of the loop in run_impl
CheckStop(c) ==
  /\ At(c, "crawl")
  /\ To(c, IF stop_flag[c] \/ left[c] = 0 THEN "finished" ELSE "probe")
  /\ UNCHANGED <<gui, object, stop_flag, ui, limited, left, torn, posted, crashed, stale>>

\* One host: what is read from it is compared with limit_to_networks, over and over.
\* A recursive crawl goes on, another ends here; a stop is noticed on the way.
Probe(c) ==
  /\ At(c, "probe")
  /\ \/ To(c, "crawl")
     \/ To(c, "finished")
  /\ left' = [left EXCEPT ![c] = @ - 1]
  /\ torn' = [torn EXCEPT ![c] = FALSE]
  /\ MayCrash(torn[c] \/ (limited[c] /\ PageGone(c)))
  /\ UNCHANGED <<gui, object, stop_flag, ui, limited, posted, stale>>

\* the connection is a queued one, and gone with the page
EmitFinished(c) ==
  /\ At(c, "finished") /\ To(c, "deleteLater")
  /\ posted' = IF PageGone(c) THEN posted ELSE Append(posted, Event("finished", c))
  /\ UNCHANGED <<gui, object, stop_flag, ui, limited, left, torn, crashed, stale>>

\* mutant: deleteLater() is asked for by the page only
DeleteLaterIfShown(c) ==
  /\ At(c, "deleteLater") /\ To(c, "returning")
  /\ posted' = IF PageGone(c) THEN posted ELSE Append(posted, Event("delete", c))
  /\ UNCHANGED <<gui, object, stop_flag, ui, limited, left, torn, crashed, stale>>

DeleteLater(c) ==
  /\ At(c, "deleteLater") /\ To(c, "returning")
  /\ posted' = Append(posted, Event("delete", c))
  /\ UNCHANGED <<gui, object, stop_flag, ui, limited, left, torn, crashed, stale>>

Return(c) ==
  /\ At(c, "returning") /\ To(c, "ended")
  /\ UNCHANGED <<gui, object, stop_flag, ui, limited, left, torn, posted, crashed, stale>>

-----------------------------------------------------------------------------
Run(c) ==
  \/ ConnectLogger(c) \/ CheckStop(c) \/ Probe(c)
  \/ EmitFinished(c) \/ DeleteLater(c) \/ Return(c)

EventLoop == CrawlerFinished \/ Destroyed

Waited == \E lim \in Limits : InitializePageWaited(Fresh, lim)

Next ==
  \/ OpenWizard \/ NextPage \/ BackToPage \/ CleanupPage \/ StopClicked \/ CloseWizard
  \/ \E lim \in Limits : InitializePage(Fresh, lim)
  \/ InitializePageStops
  \/ Waited
  \/ EventLoop
  \/ \E c \in Crawlers : Run(c)

Spec == Init /\ [][Next]_vars

(* The scheduler runs every thread and the event loop is never left for     *)
(* good; SNMP queries have a timeout and a bounded number of retries.       *)
FairSpec == Spec /\ WF_vars(EventLoop) /\ WF_vars(Waited) /\ \A c \in Crawlers : WF_vars(Run(c))

-----------------------------------------------------------------------------
\* Type invariant; a crawl never takes more hosts than there are in its queue.
TypeOK ==
  /\ wizard \in 0..MaxWizards
  /\ where \in {"closed", "before", "progress", "waiting", "after"}
  /\ crawler \in Crawlers \cup {NoCrawler}
  /\ objects \in Seq([of : Crawlers, whole : BOOLEAN])
  /\ nextButton \in BOOLEAN
  /\ thread \in [Crawlers -> {"none", "ended"} \cup Crawling \cup Exiting]
  /\ object \in [Crawlers -> {"none", "alive", "deleted"}]
  /\ stop_flag \in [Crawlers -> BOOLEAN]
  /\ ui \in [Crawlers -> 0..MaxWizards]
  /\ limited \in [Crawlers -> BOOLEAN]
  /\ left \in [Crawlers -> 0..MaxHosts]
  /\ torn \in [Crawlers -> BOOLEAN]
  /\ posted \in Seq([sort : {"finished", "delete"}, of : Crawlers])
  /\ crashed \in BOOLEAN /\ stale \in BOOLEAN

\* ND_ProgressPage asks its thread isRunning(), stop(), getNetworks() through a plain
\* pointer to an object that deletes itself: the pointer never outlives the object.
PageUsesLiveCrawler == crawler # NoCrawler => object[crawler] = "alive"

\* A thread that was not told to stop is the one of the page that is shown: Back, Next
\* and closing the wizard, in any order, never leave one crawling on its own, and there
\* is never a second one.
UnwatchedIsStopped ==
  \A c \in Crawlers : (thread[c] \in Crawling /\ ~stop_flag[c]) =>
    where = "progress" /\ crawler = c

\* What the user chooses from on the next pages was found by one crawl that had ended,
\* the last one, and is there once; unless Next was pressed before the results of the
\* crawl that Back had stopped were reported.
ResultsOfOneCrawl ==
  ~stale => /\ Len(objects) <= 1
            /\ \A i \in 1..Len(objects) : objects[i].whole
            /\ crawler # NoCrawler => \A i \in 1..Len(objects) : objects[i].of = crawler

\* Every thread ends, and its object is deleted, also when the page that made it is gone.
EveryCrawlerFreed ==
  \A c \in Crawlers : object[c] = "alive" ~> (object[c] = "deleted" \/ crashed)
=============================================================================
