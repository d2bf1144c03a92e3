------------------------ MODULE MCRequestValidation ------------------------
\* Query strings around each check: the bucket cap (5 x 100 = 500 and
\* 6 x 100 = 600), the per_page bound of 50, absent, empty and non-numeric
\* values, and a zero or negative per_page (refused only by the paginator's
\* assert, line 241).  Zero and negative bucket counts are left out: the
\* checks bound the product from above only (line 169), and the spec leaves
\* open whether they are valid.
EXTENDS RequestValidation

CONSTANTS duration, lcp, unknownColumn, release, browser

MCAllowedColumns == {duration, lcp}

RequestsOver(buckets, perPages) ==
    [feature : BOOLEAN, projects : {0, 1, 2},
     aggregateColumn : {NULL, EMPTY, duration, unknownColumn},
     tagKey : {NULL, EMPTY, release, browser},
     numBuckets : buckets, perPage : perPages]

MCPositiveRequests ==
    RequestsOver({NULL, EMPTY, NaN, 1, 100, 101}, {NULL, NaN, -1, 0, 5, 6, 51})

=============================================================================
