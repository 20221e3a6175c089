SPECIFICATION FairSpec
CONSTANTS
  c1 = c1
  c2 = c2
  c3 = c3
  Crawlers = {c1, c2, c3}
  NoCrawler = NoCrawler
  Limits = {TRUE}
  MaxWizards = 2
  MaxHosts = 2
INVARIANTS
  TypeOK
  PageUsesLiveCrawler
  UnwatchedIsStopped
  ResultsOfOneCrawl
PROPERTY EveryCrawlerFreed
CHECK_DEADLOCK FALSE
