\* Four releases, one per migration, rolled out over three servers, with up to two rollbacks.
CONSTANTS
    s1 = s1
    s2 = s2
    s3 = s3
    Instances <- MCInstances
    MaxRollbacks = 2
SPECIFICATION Spec
INVARIANT SchemaServesEveryRelease
\* Deploying stops after the last release.
CHECK_DEADLOCK FALSE
