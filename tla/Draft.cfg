SPECIFICATION Spec
CONSTANTS
  Subs <- MCSubs
  AcrNames = {"a1"}
  ClusterNames = {"c1"}
  AcrsOf <- MCAcrsOf
  ClustersOf <- MCClustersOf
  Repos <- MCRepos
  Namespaces <- MCNamespaces
  RepoNames = {"r1"}
  NsNames = {"n1"}
  BranchesOf <- MCBranchesOf
  DefaultBranch <- MCDefaultBranch
  VersionsOf <- MCVersionsOf
  Specs = {"manifests", "helm"}
  Directories = {"app"}
  WorkflowNames = {"new", "old", "Old"}
  LowerOf <- MCLowerOf
  FileOf <- MCFileOf
  UsersFiles <- MCUsersFiles
  Openings <- MCOpenings
  MaxVersions = 2
  MaxWaiting = 1
  MaxDrafted = 1
  None = None
PROPERTY UsersFilesKept
INVARIANT HandoffArrives
INVARIANT TagsSettle
INVARIANT SelectionsFit
