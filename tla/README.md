# TLA+ models of the facet-performance endpoints, the profile-functions top-events timeseries, and the deployment of the schema and data migrations

This directory holds TLA+ models of the code under `src/`. TLC checks them with the `.cfg` files here. `PROJECT.json` lists the following:

- every component and its status;
- every run and its expected outcome;
- the mutants that show each checked property can fail;
- the source lines each definition translates;
- the findings;
- the hazards.

## The system

`organization_events_facets_performance.py` serves two endpoints over an event store. Events are transactions with tags and a metric column, the `aggregateColumn`.

- **Facets endpoint** (`OrganizationEventsFacetsPerformanceEndpoint.get`, `data_fn`). It pages through its answer with a `GenericOffsetPaginator` that requests `limit + 1` rows. Each page runs two store queries:
  1. `query_tag_data` reads the baseline: the count and average of the metric over all matching events. It returns None when there is no row, the count is 0 or the average is None. The endpoint then answers an empty page.
  2. `query_facet_performance` plans a sample rate (lines 385-398) and groups events by (tag key, tag value). Outside `tagKey`/`allTagKeys` mode it keeps only groups whose average exceeds 1.005 × the baseline. It derives `sumdelta`, `frequency`, `comparison` and `aggregate`, orders by the request plus a (`tags_key`, `tags_value`) tie-break, and caps each key at one row (`LIMIT 1 BY`) unless a `tagKey` is given. It also applies LIMIT/OFFSET.
- **Histogram endpoint.** `query_top_tags` ranks the values of one tag key. The default order is count descending, `frequency` is rewritten to `count`, and `tags_value` is the tie-break. `data_fn` passes the first `raw_limit` of the `limit + 1` top values to `query_facet_performance_key_histogram`. `HistogramPaginator.get_result` then decides `has_more` from the probe row, pops it, and builds the next and previous offset cursors.
- **Pages are independent requests.** Events can be ingested between any two queries: between the baseline and the facet query, between top tags and histogram, and between pages.

`0726_apitoken_backfill_hashes.py` is a post-deployment data migration. It runs while the application serves traffic.

- It walks `ApiToken` by id through `RangeQuerySetWrapperWithProgressBar`.
- It computes the sha256 of a missing `hashed_token`, and always of a present `refresh_token`.
- When it hashed anything, it saves both columns with `update_fields` and creates one `ControlOutbox` per region of the token's user.
- An `ImportError` of the silo helpers makes it log and return.

`profile_functions_metrics.py` holds query wrappers for a metrics dataset. `top_events_timeseries` is the only one with control of its own:
- it finds the top `limit` groups with `query()` unless the caller passes them;
- when exactly `limit` came back and `include_other` is set, it fetches an "other" timeseries of the remaining groups, then the top groups' timeseries;
- it files the rows under each group's key, with the group's rank as `order` (the other series gets `limit`), and zerofills;
- with `allow_empty` unset and both results empty, it answers one empty zerofilled series.

Migrations 0650, 0659 and 0665 change the schema:
- 0650 creates the `SentryShot` table;
- 0659 makes three `artifactbundleindex` columns nullable and drops the database constraint of two `flatfileindexstate` foreign keys;
- 0665 drops `monitorenvironment.last_state_change` from the database only (`SeparateDatabaseAndState` with no state operations), since the column had already left Django's model state.

Each Migration class sets `is_post_deployment`. Its comment gives the rule: a `False` migration runs before the release's code rolls out, and a `True` one (0726) is run by hand after the code has deployed. The application keeps serving throughout, old and new code side by side.

## Modules

| Module | Models | State | Actions |
|---|---|---|---|
| `RatArith` | exact rationals; the store's ORDER BY as a lexicographic comparison over order terms | – | – |
| `SamplingPlanner` | lines 385-398 | `n`: the baseline count the planner is called with | `Plan` |
| `FacetsPerformance` | facets endpoint, `query_tag_data`, `query_facet_performance`, GenericOffsetPaginator | `store` (sequence of events), `request`, `phase`, `offset`, `tagData`, `page`, `hasMore`, `seen` (all pages so far) | `Ingest`, `NoBaseline`, `BaselineFound`, `FacetQuery`, `NextPage` |
| `HistogramPerformance` | histogram endpoint, `query_top_tags`, the histogram query, `HistogramPaginator` | `store`, `orderby`, `phase`, `offset`, `topTags`, `page`, `histogram`, `hasMore`, `served` | `Ingest`, `NoTopTags`, `TopTagsFound`, `HistogramQuery`, `NextPage`, `PrevPage` |
| `RequestValidation` | `_setup` and the histogram endpoint's checks (lines 54-72, 149-178), the paginator's `max_per_page` and `assert limit > 0` | `req`, `outcome` | `Handle` |
| `OffsetPaging` | abstract: what an offset paginator promises (spec 4.6) | `items`, `offset`, `page`, `hasMore`, `pending` | `Serve`, `FollowNext`, `FollowPrev`, `Rerank` |
| `TopEventsTimeseries` | `top_events_timeseries` | `store` (rows `[group, bucket]`), `req` (include_other, allow_empty, zerofill, order), `phase`, `top`, `otherData`, `result` | `Ingest`, `TopQuery`, `OtherQuery`, `SeriesQuery`; `timeseries_query` as the operator `TimeseriesQuery` (a read, no state) |
| `BackfillHashes` | migration 0726 | `tokens` (id → row or NULL), `outbox`, `mig`, `cursor`, `snap` (the row read), `undo`/`outbox0` (rollback images), application budgets | `ImportFailure`, `ImportSuccess`, `ReadRow`, `ProcessRow`, `SaveFails`, `Commit`, `Rerun`; application: `RefreshToken`, `DeleteToken` |
| `SchemaDeploy` | the operations and `is_post_deployment` flags of 0650, 0659, 0665 and 0726, deployed over a rolling fleet | `db` (the database schema), `applied`, `target` (the release being deployed), `release` (per server), `rollbacks` | `StartDeploy`, `MigratePreDeployment`, `Upgrade`, `MigratePostDeployment`, `RollBack` |

The `MC*` modules give the constants: small event kinds, tag keys, tokens, users and regions.

### Abstractions

- **Events.** An event is `[tags, metric]` over a handful of kinds, and the store is a bounded sequence of them.
- **Floats.** Floats become exact rationals `<<num, den>>`.
- **Logarithms.** `math.log` becomes a constant table of `round(1000·ln n)`. `MCSamplingPlanner` explains why rounding cannot flip a comparison on its counts.
- **Ties in ORDER BY.** Rows tied on every term may come back in any order, so `SortedOrders` gives every permutation consistent with the terms. This makes the tie-break matter.
- **Sampling.** The planner's rate is always 1 (run `planner_reduces_cost`), so the facet query reads the whole store.
- **Histogram buckets.** They are abstracted to the number of events per value.
- **Hashing.** `sha256` is the injective `<<"sha256", s>>`.
- **Regions.** `find_regions_for_user` is a constant map from user to regions, or the monolith region.
- **Query-string values.** They are NULL (absent), EMPTY (`""`), NaN (what `int()` rejects) or an integer. Every non-empty string is truthy, `"0"` included. The `TAG_ALIASES` rewrite decides no outcome and is left out.
- **Timeseries rows.** A row is its group (what `create_result_key` returns) and its rollup bucket; a series maps buckets to counts. A caller-supplied `top_events` is an earlier result of the same top query, so `TopQuery` followed by `Ingest` covers it. Since a row's key is its group, the dropped-mismatch branch (lines 266-274) never fires in the model.
- **Refinement.** `HistogramPerformance` instantiates `OffsetPaging` with `items` mapped to the promised ranking of the store. A page counts as served once `query_top_tags` has read it: `pending` is `phase = "tags"`, and while the histogram query is pending, `page` and `has_more` are the popped top-tags rows. `ImplementsOffsetPaging` checks the paginator's whole behaviour, cursor moves included. `OffsetPaging` lets the ranked list change between reads (`Rerank`), since new events re-rank it; an `Ingest` step maps to that action. `FacetsPerformance` refines it the same way: `items` is `RankedFacets`, the ranked and per-key-limited rows at the page's baseline. A page is pending from its baseline read to its facet query, and a new baseline read re-ranks the list.
- **Schemas.** A schema is the set of tables, each column as absent, nullable or NOT NULL, and the constrained foreign keys. The same record stands for Django's model state and for the database. Release *k* ships migration *k*: the four are dated on different days. The code of release *k* uses the model state after *k* migrations. Before 0650, `last_state_change` is missing from the state (0665 has no state operations) and is in the database as the nullable column its `reverse_sql` restores.
- **Label formatting.** `get_tag_value_label` and `get_standardized_key` are layout and are left out.
- **The migration's transaction.** Django runs the migration in one transaction. Rows it has saved stay locked against the application until it ends (`Unlocked`). A failed save (row deleted since the read) rolls back every hash and outbox the attempt wrote (`SaveFails`). The operator then reruns it (`Rerun`).
- **Application actions.** `RefreshToken` and `DeleteToken` stand for the application around the migration. They are not code of this repository. The refresh writes new secrets together with their hashes.

## Runs

| Run | Expect | What it shows |
|---|---|---|
| `planner_contract` | pass | Sampling starts strictly above 50,000, with a rate in (0, 1] that also rescales frequencies. |
| `planner_reduces_cost` | violation | Above the threshold the rate is always 1. `max(S(ln N − ln S + 1), N) = N` because `1 + ln x ≤ x`. |
| `facets_paging` | pass | One event is ingested at any point. A session that saw no ingestion lists every expected (key, value) once and in order (`PagingCoversResult`). Every page, ingestion or not, is the page an offset paginator promises of the list the facet query ranks at that page's baseline, and the cursors move by exactly `limit` (`ImplementsOffsetPaging`). |
| `facets_frequency_race` | violation | An event ingested between baseline and facet query gives frequency > 1. |
| `facets_all_tag_keys` | violation | With `allTagKeys`, `LIMIT 1 BY` still keeps one value per key (line 416). |
| `facets_zero_baseline` | violation | A zero baseline average passes `query_tag_data`. A facet whose average is also 0 then gets `comparison` = 0/0 = nan, although spec 8 says `comparison = 1.0` exactly when the two averages are equal (`ComparisonOneIffEqualAverages`). |
| `histogram` | pass | Paging forward and back, with an event ingested at any point, refines `OffsetPaging` (`ImplementsOffsetPaging`). Every page and its `has_more` are those of the ranking when `query_top_tags` read it, and the cursors move by exactly `limit`. The histogram has buckets for exactly the values on the page, never for the popped probe value, even under ingestion (`HistogramCoversPage`). The histogram matches the tag counts when no event arrived (`HistogramCountsMatchTags`). |
| `backfill_complete` | pass | Against one refresh and one delete, and after any number of failed, rolled-back attempts, a committed run leaves every live token with `hashed_token` and every saved row with its outboxes. |
| `backfill_lost_update` | violation | A refresh between read and save is overwritten with the old secrets' hashes. |
| `request_positive` | pass | Over absent, empty, non-numeric and positive parameters, the histogram endpoint accepts exactly the valid requests. The cap is inclusive (5 × 100 passes, 6 × 100 does not, spec 8). |
| `timeseries` | pass | Rows are ingested between the three queries. A call that saw no ingestion counts every row in exactly one series (`SeriesCountEveryRow`). On such a call each series also equals `timeseries_query` over its own groups, as the docstring (lines 162-164) promises (`SeriesMatchTimeseriesQuery`). |
| `schema_deploy` | pass | Four releases roll out over three servers, with up to two servers rolled back. Every running release's models work against the database (`SchemaServesEveryRelease`). |

Two gaps are hazards in `PROJECT.json` rather than runs:
- **Non-positive parameters.** A zero or negative `numBucketsPerKey` passes validation (line 169). The spec states only the upper cap. A `per_page` of 0 or -1 is in `request_positive`: only `assert limit > 0` (line 241) keeps it from being accepted, and it answers with a server error.
- **Rows escaping the timeseries.** Rows ingested during a `top_events_timeseries` call can end up in no series. Nothing promises the three reads one snapshot.

### Bounds

- **Facets.** `Limit = 1`. `facets_paging` starts from 3 events and ingests 1 more (2 more took four minutes once the refinement was checked); the race run starts from 2 and ingests 1. Both use 4 event kinds and 3 tag keys (one excluded). This gives several groups per key, ties on every order column, and at least two pages. One page of size 1 already exercises the probe row and the pop.
- **Histogram.** 5 event kinds whose values tie on count and on aggregate, with the four order options. 3 events, with 1 more ingested at any point: between the two queries of a page, or between pages.
- **Timeseries.** `Limit = 2`, 3 groups, 2 buckets, 3 initial rows and 2 ingested (1.76 million states, about 12 s). Two top ranks tell an order off by one apart, a full top with the third group present makes the other query run, ties in count make the ranking nondeterministic, and a group can appear after the top query.
- **Requests.** Each parameter takes one value on each side of each check: buckets 1/100/101, per_page -1/0/5/6/51, and absent, empty, non-numeric, unknown column, 0/1/2 projects.
- **Planner.** The counts 1..20, 49990..50010 and a geometric series up to about 2 × 10⁶ bracket the threshold.
- **Migration.** Three tokens cover the three branches of the loop body: no hash at all, only the refresh unhashed, and no refresh token. There are two users, one with two regions and one with none, and one refresh and one delete by the application.
- **Deploy.** Three servers, so a mixed fleet can have old, new and rolled-back code at once. Up to two rollbacks happen at any point of any deploy. The four migrations are every migration in the repository.

### Fairness

No run assumes fairness, and no run checks a liveness property. Every run checks safety. The steps that would need fairness to finish are not the code's to guarantee:
- the operator reruns a failed post-deployment migration (`Rerun`) and runs a pending one ("run these manually", 0726);
- the deploy tooling restarts servers.

A property that such a step eventually happens would restate the fairness assumed, whatever the migration code does.

The endpoint models check safety only: a client may stop paging at any time.

## Not modelled

1. **The `include_count_delta` branch** (lines 420-443): the endpoint never passes the flag.
2. **Reversing a migration.** Rows are not modelled, so reversing 0659 (NOT NULL again) is not checked: it fails once NULLs are stored. `SchemaDeploy` rolls code back, never migrations.
