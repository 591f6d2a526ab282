----------------------- MODULE MCOrganizationRecords ------------------------
EXTENDS OrganizationRecords

TwoTables == <<"campaigns", "reports">>
=============================================================================
