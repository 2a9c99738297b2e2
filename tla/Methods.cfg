\* Two tasks, two requests to open, every split of a listing into batches.
SPECIFICATION FairSpec
CONSTANTS
  Tasks = {t1, t2}
  Listing <- MCListing
  Content <- MCContent
  Methods = {"read_dir", "read", "write", "hardlink", "fs_info", "metadata"}
  Offers <- MCOffers
  MaxOpens = 2
  MaxEmpty = 1
INVARIANTS ListingExact ClosedOnce GivenBack AskedOnlyOffered
PROPERTIES FilesClosed MethodsEnd
CHECK_DEADLOCK FALSE
