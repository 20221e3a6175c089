-------------------------- MODULE MCCrawlerWizard --------------------------
(* Three threads are enough for a crawl, one begun while it goes on and one *)
(* after the wizard was closed and opened again.                           *)
EXTENDS CrawlerWizard, TLC
=============================================================================
