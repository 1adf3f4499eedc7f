CONSTANTS
  MaxWrites = 2
  Disturbances = 2
SPECIFICATION FairSpec
INVARIANTS TypeOK CredentialsMatch PollsOwnEnrollment ConfiguredIsDeployed
PROPERTIES RenewsCertificates
