--------------------------- MODULE MCHealthCheck ---------------------------
(* HealthCheck with a health request or two scrapes that overlap (a request  *)
(* and a scrape share nothing that either of them writes), over the          *)
(* indicators that decide in different ways: before any call (memory_heap),  *)
(* before or after one (mongodb), and on a number (storage).  One queue      *)
(* gauge stands for both: either fails or delays the scrape in the same way. *)
EXTENDS HealthCheck

CONSTANTS http1, scrape1, scrape2

MCIndicators == {"mongodb", "storage", "memory_heap"}
MCHttpChecks == {http1}
MCQueueGauges == {"waiting"}
MCScrapes == {scrape1, scrape2}
MCSingly == {MCHttpChecks}
MCMixes == {MCHttpChecks, MCScrapes}
=============================================================================
