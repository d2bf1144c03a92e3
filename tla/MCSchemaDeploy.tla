--------------------------- MODULE MCSchemaDeploy ---------------------------
\* Three application servers: any of them can run the old code while the
\* others have restarted on the new, or have been rolled back.
EXTENDS SchemaDeploy

CONSTANTS s1, s2, s3

MCInstances == {s1, s2, s3}

=============================================================================
